---------------------------- MODULE Spec2Model ----------------------------
(***************************************************************************)
(* Resource-management layer of the chat pipeline:                         *)
(*   - BatchProcessor / BatchService  (app/services/batch_service.py)      *)
(*   - SecurityManager.check_rate_limit  (app/core/security.py)            *)
(*   - LRUCache  (app/services/cache_service.py)                           *)
(*   - context assembly and process_message (app/services/chat_service.py) *)
(*   - the chat endpoints  (app/api/routes/chat.py)                        *)
(*   - TextSplitter  (app/utils/text_splitter.py)                          *)
(*                                                                         *)
(* SpecBatch models concurrent add_embedding_task callers on one           *)
(* BatchProcessor under asyncio's cooperative scheduling: a task runs      *)
(* without interruption between two awaits, so every action below is the   *)
(* code between two suspension points.  SpecRate models the rate limiter,  *)
(* SpecCache one LRUCache under get, set and cleanup, SpecSweep the same   *)
(* cache with cleanup taken step by step.  SpecRank and SpecPack run       *)
(* get_relevant_context on retrieved hits, SpecRetrieve runs it search by  *)
(* search, SpecChat serves requests to the chat endpoints, SpecHistory     *)
(* calls process_message directly, SpecSplit runs split_text and           *)
(* SpecEmbed runs BatchService._get_embeddings.                            *)
(***************************************************************************)
EXTENDS Integers, Sequences, FiniteSets, TLC

(***************************************************************************)
(* Bounds of the model                                                     *)
(***************************************************************************)
\* number of concurrent add_embedding_task callers (each submits one item)
NumTasks == 3
\* batch_size of the processor under test (constructor argument)
BatchSize == 2
\* max_wait_time of the processor under test, in clock ticks
MaxWaitTime == 2
\* last clock tick of a batch run
MaxTime == 3

\* settings.MAX_REQUESTS_PER_MINUTE of the limiter under test
MAX_REQUESTS_PER_MINUTE == 2
\* check_rate_limit calls in one run
MaxCalls == 4
\* last clock value of a rate-limiter run, in seconds
MaxClock == 124

\* length of the sliding window in seconds (the literal 60 of lines 87-88, 97-98)
WINDOW == 60
\* seconds between two sweeps (the literal 60 of line 76)
CLEANUP_INTERVAL == 60
\* the clock advances between calls by 30 or 31 seconds, which puts ages of
\* 59, 60 and 61 seconds on both sides of the window's edge
Steps == {30, 31}
IPs == {"ip1", "ip2"}

\* max_size of the cache under test (constructor argument)
MaxSize == 2
\* cache operations in one run
MaxOps == 4
KeyData == {"q1", "q2", "q3"}
\* get returns None
Absent == 0
\* expire_seconds of a set
TTLs == {0, 1, 2}

\* the callers of cleanup: the periodic task started by main.py and
\* CacheService.check_cleanup
Sweepers == {"periodic", "check_cleanup"}
NoSweeper == "none"
\* the keys used beside a sweep
SweepKeyData == {"q1", "q2"}

\* hits returned by the searches of one get_relevant_context call
NumHits == 3
\* similarity threshold (line 139), in hundredths
THRESHOLD == 25
\* default of max_context_tokens (line 140)
MAX_CONTEXT_TOKENS == 6000
\* "very important" score (line 220), in hundredths
HIGH_RELEVANCE == 70
\* shortest text that is packed (line 211)
MIN_TEXT_LEN == 50
\* characters per estimated token (lines 215, 222, 226)
CHARS_PER_TOKEN == 4
\* tokens kept free when a text is truncated (line 221)
TRUNCATE_BUFFER == 100
\* len("[High Relevance] ") and len("...") (lines 223, 225)
PREFIX_LEN == 17
ELLIPSIS_LEN == 3
\* similarity scores, in hundredths
Scores == {-50, 20, 40, 80}
\* the chunks of the collection: chunk_hash is the digest of the chunk's
\* text (vector_store.py line 102), so the hits of one chunk differ in score only
ChunkHashes == {1, 2}
\* token budgets and text lengths (in characters) of the packing runs
Budgets == {50, 2500}
TextLens == {40, 204, 4000, 12000}
PackScores == {40, 80}
\* user messages, as their lower-case words
Messages == {<<"hello">>, <<"zero", "specification">>, <<"all", "skipper">>}
NoContext == [kind |-> "none", parts |-> << >>]

\* requests to the chat endpoints in one run
MaxRequests == 3
\* of them, requests that reach process_message
MaxProcessed == 2
\* expire_seconds of a cached response (cache_service.py line 115)
RESPONSE_TTL == 3600
\* CacheService.cleanup_interval (cache_service.py line 96)
CACHE_CLEANUP_INTERVAL == 300
\* history messages kept for a completion request (chat_service.py lines 81-82)
HISTORY_KEPT == 5
\* the clock values of a chat run after 0: a response cached at 0 is one
\* second short of its expiry, or at it
ChatTimes == {3599, 3600}
\* the clients: every request of a client carries the valid ticket of its
\* session; the two clients write the same question differently (the
\* second in another case and with a trailing blank)
Clients == {[ip |-> "ip1", session |-> "s1", question |-> "q1"],
            [ip |-> "ip2", session |-> "s2", question |-> "Q1 "]}
\* user messages of a client: its question, or a message validate_input rejects
ChatMessages(client) == {client.question, "<script>"}
\* where a call of process_message fails: nowhere, at the embedding of line
\* 53, inside get_relevant_context at the embedding of line 145 or at the
\* search of line 148, at the completion of line 87, at the encryption of
\* line 116
Failures == {"none", "embedding", "context_embedding", "search", "completion", "encrypt"}
\* the failures that line 190 of get_relevant_context catches
RetrievalFailures == {"context_embedding", "search"}
\* the failures of a run of direct process_message calls
HistoryFailures == {"none", "embedding", "completion", "encrypt"}
\* direct calls of process_message in one run
MaxMessages == 5

\* chunk_size of the splitter under test (constructor argument)
ChunkSize == 5
\* paragraphs of one text
NumParagraphs == 3
\* chunk_overlap of the splitter under test: none, one, the default of 200
Overlaps == {0, 1, 200}
\* paragraphs after strip, as the lengths of their words: a blank one, one
\* and two short words, and two words that are too long together
ParagraphKinds == {<< >>, <<2>>, <<3>>, <<2, 2>>, <<3, 3>>}

\* estimated tokens above which _get_embeddings splits its argument
\* (batch_service.py line 167)
EMBED_TOKEN_LIMIT == 250000
\* texts of one _get_embeddings call
MaxTexts == 3
\* lengths of the texts in characters: 100000, 150000 and 250001 estimated tokens
TextSizes == {400000, 600000, 1000004}
\* nested calls the interpreter allows (sys.getrecursionlimit() is 1000)
RecursionLimit == 4

Tasks == 1 .. NumTasks
Texts == {"a", "b"}
NoTask == 0

VARIABLES
    now,               \* time.time()
    \* ---- BatchProcessor ----
    current_batch,     \* self.current_batch: sequence of items (item = caller id)
    last_process_time, \* self.last_process_time
    lock,              \* self._lock: NoTask when free, else the holder
    \* ---- the item dicts ----
    item_text,         \* item['text']
    item_future,       \* item['future']: [state, val]; state "absent" = no key
    \* ---- one add_to_batch call per task ----
    pc,                \* position of the task in add_to_batch
    batch_to_process,  \* local of the flushing call
    outcome,           \* what the call returned or raised
    \* ---- history (not program state) ----
    flushed,           \* processor invocations: [batch, by, provider, results]
    appended,          \* items that went through current_batch.append
    bad_sets,          \* items whose future got set_result/set_exception while not pending
    \* ---- SecurityManager ----
    request_counts,    \* self._request_counts: identity -> sequence of timestamps
    last_cleanup,      \* self._last_cleanup
    calls,             \* history: identity -> sequence of [t, allowed]
    \* ---- LRUCache ----
    cache,             \* self.cache: the OrderedDict as a sequence of items, oldest first
    \* ---- history (not program state) ----
    recency,           \* keys in the order of their last set or successful get
    op_count,          \* number of cache operations so far
    last_op,           \* the latest cache operation, with the cache before it
    \* ---- LRUCache.cleanup on the event loop ----
    running,           \* the cleanup call the event loop is in the middle of
    cleanup_lock,      \* self._cleanup_lock: the cleanup call that holds it
    cleanup_pc,        \* position of each cleanup call
    cleanup_now,       \* its local `now` (line 70)
    expired_keys,      \* its local `expired_keys`, the part not yet deleted
    \* ---- ChatService.get_relevant_context ----
    ctx_pc,            \* position of the call
    message,           \* the user message, as its lower-case words
    all_results,       \* all_results: the hits of every search, in retrieval order
    max_tokens,        \* max_context_tokens / max_tokens
    filtered_docs,     \* filtered_docs (line 183)
    prioritized_docs,  \* prioritized_docs (line 207)
    doc_i,             \* position of the packing loop in prioritized_docs
    context_parts,     \* context_parts
    total_tokens,      \* total_tokens
    final_context,     \* what get_relevant_context returns
    \* ---- the chat endpoints, ChatService and CacheService ----
    response_cache,    \* cache_service.response_cache.cache
    last_cleanup_time, \* cache_service.last_cleanup_time
    conversation_history, \* chat_service.conversation_history: session -> messages
    completion_calls,  \* calls of openai_service.get_chat_completion so far
    responses,         \* the response_data dicts built so far, by number
    \* ---- history (not program state) ----
    chat_log,          \* the requests served so far
    cache_before,      \* the response cache before the latest request
    history_before,    \* the conversation history before the latest request
    \* ---- TextSplitter.split_text ----
    split_pc,          \* position of the call
    chunk_overlap,     \* self.chunk_overlap
    paragraphs,        \* paragraphs: each one the lengths of its words
    para_i,            \* position of the loop in paragraphs
    chunks,            \* chunks, each one by its length
    current_chunk,     \* current_chunk: the lengths of its paragraphs
    current_size,      \* current_size
    \* ---- the searches of get_relevant_context ----
    expanded_queries,  \* expanded_queries[:3], the queries of the loop of line 159
    query_i,           \* position of that loop
    searches,          \* history: the searches issued, [query, ok, hits]
    \* ---- BatchService._get_embeddings ----
    embed_pc,          \* position of the outermost call
    embed_texts,       \* its argument
    embed_stack,       \* the frames of the recursion, innermost last
    provider_calls,    \* history: the lists handed to create_embeddings
    embed_result       \* what the outermost call returned or raised

batch_vars == <<current_batch, last_process_time, lock, item_text, item_future, pc,
                batch_to_process, outcome, flushed, appended, bad_sets>>
rate_vars == <<request_counts, last_cleanup, calls>>
cache_vars == <<cache, recency, op_count, last_op>>
sweep_vars == <<running, cleanup_lock, cleanup_pc, cleanup_now, expired_keys>>
ctx_vars == <<ctx_pc, message, all_results, max_tokens, filtered_docs,
              prioritized_docs, doc_i, context_parts, total_tokens, final_context>>
chat_vars == <<response_cache, last_cleanup_time, conversation_history,
               completion_calls, responses, chat_log, cache_before, history_before>>
split_vars == <<split_pc, chunk_overlap, paragraphs, para_i, chunks, current_chunk,
                current_size>>
retr_vars == <<expanded_queries, query_i, searches>>
embed_vars == <<embed_pc, embed_texts, embed_stack, provider_calls, embed_result>>
ext_vars == <<sweep_vars, ctx_vars, chat_vars, split_vars, retr_vars, embed_vars>>
vars == <<now, batch_vars, rate_vars, cache_vars, ext_vars>>

Min(a, b) == IF a <= b THEN a ELSE b

\* A provider result for one text.  Real embedding vectors are not comparable
\* here; a result is tagged with the text it was computed from and with its
\* position in the provider call, so that a result delivered to the wrong
\* caller is observable even when two texts are equal.
NoVal == [text |-> "none", pos |-> 0]
NoFuture == [state |-> "absent", val |-> NoVal, err |-> "none"]
PendingFuture == [state |-> "pending", val |-> NoVal, err |-> "none"]
NoOutcome == [kind |-> "none", val |-> NoVal, err |-> "none"]

(***************************************************************************)
(* BatchProcessor.add_to_batch, the synchronous parts                      *)
(***************************************************************************)
\* lines 40-43
should_process(batch, current_time, last_time) ==
    \/ Len(batch) >= BatchSize
    \/ current_time - last_time >= MaxWaitTime

\* line 46: batch_to_process = self.current_batch
CapturedBatch(batch) == batch

FreshBatch_NotReset(batch) == batch

\* line 47: self.current_batch = []
FreshBatch(batch) == << >>

\* dict equality of two items: same keys and equal values; futures compare by
\* identity, so two items that both carry a future are equal only if they are
\* the same item
DictEq(a, b, futs) ==
    \/ a = b
    \/ /\ item_text[a] = item_text[b]
       /\ futs[a].state = "absent"
       /\ futs[b].state = "absent"

\* line 53: batch_to_process.index(item), the first equal element
index(batch, item, futs) ==
    CHOOSE i \in 1 .. Len(batch) :
        /\ DictEq(batch[i], item, futs)
        /\ \A j \in 1 .. (i - 1) : ~DictEq(batch[j], item, futs)

(***************************************************************************)
(* BatchService.process_embedding_batch                                    *)
(***************************************************************************)
\* line 90
TextsOf(batch) == [i \in 1 .. Len(batch) |-> item_text[batch[i]]]

\* lines 156-181, the successful return: one embedding per text, in order
GetEmbeddings(texts) == [i \in 1 .. Len(texts) |-> [text |-> texts[i], pos |-> i]]

\* Future.set_result / set_exception raise InvalidStateError unless pending
Settable(f) == f.state = "pending"

\* lines 96-98: for item, result in zip(batch, results): set_result
\* returns the futures after the loop, whether it raised, and the item whose
\* future refused the set
RECURSIVE SetResultLoop(_, _, _, _)
SetResultLoop(batch, results, i, futs) ==
    IF i > Min(Len(batch), Len(results))
    THEN [futs |-> futs, raised |-> FALSE, bad |-> {}]
    ELSE LET it == batch[i] IN
         IF futs[it].state = "absent"
         THEN SetResultLoop(batch, results, i + 1, futs)
         ELSE IF Settable(futs[it])
         THEN SetResultLoop(batch, results, i + 1,
                  [futs EXCEPT ![it] = [state |-> "result", val |-> results[i],
                                        err |-> "none"]])
         ELSE [futs |-> futs, raised |-> TRUE, bad |-> {it}]

\* lines 104-106: for item in batch: set_exception(e)
RECURSIVE SetExceptionLoop(_, _, _, _)
SetExceptionLoop(batch, e, i, futs) ==
    IF i > Len(batch)
    THEN [futs |-> futs, raised |-> FALSE, bad |-> {}]
    ELSE LET it == batch[i] IN
         IF futs[it].state = "absent"
         THEN SetExceptionLoop(batch, e, i + 1, futs)
         ELSE IF Settable(futs[it])
         THEN SetExceptionLoop(batch, e, i + 1,
                  [futs EXCEPT ![it] = [state |-> "exception", val |-> NoVal,
                                        err |-> e]])
         ELSE [futs |-> futs, raised |-> TRUE, bad |-> {it}]

\* lines 88-107 from the return of _get_embeddings on: the try body and the
\* except handler.  ok = the provider call succeeded.
\* Returns [futs, bad, kind, results, err]: kind "value" = returned results,
\* "error" = raised err.
ProcessEmbeddingResult(batch, ok, futs) ==
    LET results == GetEmbeddings(TextsOf(batch))
        tried == SetResultLoop(batch, results, 1, futs)
        e == IF ok THEN "InvalidStateError" ELSE "ProviderError"
        handled == SetExceptionLoop(batch, e, 1, IF ok THEN tried.futs ELSE futs)
    IN  IF ok /\ ~tried.raised
        THEN [futs |-> tried.futs, bad |-> {}, kind |-> "value",
              results |-> results, err |-> "none"]
        ELSE [futs |-> handled.futs,
              bad |-> (IF ok THEN tried.bad ELSE {}) \cup handled.bad,
              kind |-> "error",
              results |-> IF ok THEN results ELSE << >>,
              err |-> IF handled.raised THEN "InvalidStateError" ELSE e]

(***************************************************************************)
(* Initial state: BatchService() and SecurityManager() just constructed    *)
(***************************************************************************)
BatchInit ==
    /\ current_batch = << >>
    /\ last_process_time = 0
    /\ lock = NoTask
    /\ item_text = [s \in Tasks |-> "none"]
    /\ item_future = [s \in Tasks |-> NoFuture]
    /\ pc = [s \in Tasks |-> "idle"]
    /\ batch_to_process = [s \in Tasks |-> << >>]
    /\ outcome = [s \in Tasks |-> NoOutcome]
    /\ flushed = << >>
    /\ appended = {}
    /\ bad_sets = {}

RateInit ==
    /\ request_counts = [ip \in {} |-> << >>]
    /\ last_cleanup = 0
    /\ calls = [ip \in IPs |-> << >>]

NoOp == [op |-> "none", key |-> "none", value |-> Absent, ttl |-> 0, t |-> 0,
         result |-> Absent, before |-> << >>, order |-> << >>]

CacheInit ==
    /\ cache = << >>
    /\ recency = << >>
    /\ op_count = 0
    /\ last_op = NoOp

SweepInit ==
    /\ running = NoSweeper
    /\ cleanup_lock = NoSweeper
    /\ cleanup_pc = [w \in Sweepers |-> "idle"]
    /\ cleanup_now = [w \in Sweepers |-> 0]
    /\ expired_keys = [w \in Sweepers |-> << >>]

\* no call of get_relevant_context has started
ContextInit ==
    /\ ctx_pc = "idle"
    /\ message = << >>
    /\ all_results = << >>
    /\ max_tokens = 0
    /\ filtered_docs = << >>
    /\ prioritized_docs = << >>
    /\ doc_i = 0
    /\ context_parts = << >>
    /\ total_tokens = 0
    /\ final_context = NoContext

\* ChatService() and CacheService() just constructed
ChatInit ==
    /\ response_cache = << >>
    /\ last_cleanup_time = 0
    /\ conversation_history = [s \in {} |-> << >>]
    /\ completion_calls = 0
    /\ responses = << >>
    /\ chat_log = << >>
    /\ cache_before = << >>
    /\ history_before = [s \in {} |-> << >>]

\* no call of split_text has started
SplitInit ==
    /\ split_pc = "idle"
    /\ chunk_overlap = 0
    /\ paragraphs = << >>
    /\ para_i = 0
    /\ chunks = << >>
    /\ current_chunk = << >>
    /\ current_size = 0

\* no search has been issued
RetrievalInit ==
    /\ expanded_queries = << >>
    /\ query_i = 0
    /\ searches = << >>

NoResult == [kind |-> "none", val |-> << >>]

\* no call of _get_embeddings has started
EmbedInit ==
    /\ embed_pc = "idle"
    /\ embed_texts = << >>
    /\ embed_stack = << >>
    /\ provider_calls = << >>
    /\ embed_result = NoResult

Init ==
    /\ now = 0
    /\ BatchInit
    /\ RateInit
    /\ CacheInit
    /\ SweepInit
    /\ ContextInit
    /\ ChatInit
    /\ SplitInit
    /\ RetrievalInit
    /\ EmbedInit

(***************************************************************************)
(* Actions of the batch specification                                      *)
(***************************************************************************)
\* time passes
Tick ==
    /\ now < MaxTime
    /\ now' = now + 1
    /\ UNCHANGED <<batch_vars, rate_vars, cache_vars, ext_vars>>

\* add_embedding_task(text), lines 136-144: builds {'text': text} and enters
\* add_to_batch, reaching `async with self._lock` (line 36)
add_embedding_task(s) ==
    /\ pc[s] = "idle"
    /\ \E text \in Texts : item_text' = [item_text EXCEPT ![s] = text]
    /\ pc' = [pc EXCEPT ![s] = "acquire"]
    /\ UNCHANGED <<now, current_batch, last_process_time, lock, item_future,
                   batch_to_process, outcome, flushed, appended, bad_sets, rate_vars, cache_vars, ext_vars>>

\* add_to_batch, lines 36-51 and 60-62: from the lock being granted to the
\* next await (the processor call, or the wait on the item's future)
add_to_batch(s) ==
    /\ pc[s] = "acquire"
    /\ lock = NoTask
    /\ lock' = s
    /\ appended' = appended \cup {s}
    /\ LET batch == Append(current_batch, s) IN
       IF should_process(batch, now, last_process_time)
       THEN /\ batch_to_process' = [batch_to_process EXCEPT ![s] = CapturedBatch(batch)]
            /\ current_batch' = FreshBatch(batch)
            /\ last_process_time' = now
            /\ flushed' = Append(flushed, [batch |-> CapturedBatch(batch), by |-> s,
                                          provider |-> "running", results |-> << >>])
            /\ pc' = [pc EXCEPT ![s] = "processing"]
            /\ UNCHANGED item_future
       ELSE /\ current_batch' = batch
            /\ item_future' = [item_future EXCEPT ![s] = PendingFuture]
            /\ pc' = [pc EXCEPT ![s] = "waitFuture"]
            /\ UNCHANGED <<batch_to_process, last_process_time, flushed>>
    /\ UNCHANGED <<now, item_text, outcome, bad_sets, rate_vars, cache_vars, ext_vars>>

\* line 36: leaving the `async with self._lock` block releases the lock, on
\* return and on raise alike
Released_StillHeld(holder) == holder

Released(holder) == NoTask

\* the log entry of the batch that task s flushed
EntryOf(s) == CHOOSE k \in 1 .. Len(flushed) : flushed[k].by = s

\* process_embedding_batch lines 93-107, then add_to_batch lines 52-57 and
\* the release of the lock: from the provider's answer to the end of the call
process_embedding_batch(s) ==
    /\ pc[s] = "processing"
    /\ \E ok \in BOOLEAN :
         LET batch == batch_to_process[s]
             r == ProcessEmbeddingResult(batch, ok, item_future)
         IN  /\ item_future' = r.futs
             /\ bad_sets' = bad_sets \cup r.bad
             /\ flushed' = [flushed EXCEPT ![EntryOf(s)] =
                              [@ EXCEPT !.provider = IF ok THEN "ok" ELSE "failed",
                                        !.results = r.results]]
             /\ outcome' = [outcome EXCEPT ![s] =
                    IF r.kind = "value"
                    THEN [kind |-> "value",
                          val |-> r.results[index(batch, s, r.futs)],
                          err |-> "none"]
                    ELSE [kind |-> "error", val |-> NoVal, err |-> r.err]]
    /\ pc' = [pc EXCEPT ![s] = "done"]
    /\ lock' = Released(s)
    /\ UNCHANGED <<now, current_batch, last_process_time, item_text,
                   batch_to_process, appended, rate_vars, cache_vars, ext_vars>>

\* line 62: `return await future` resumes once the future is done, and the
\* `async with` block releases the lock on the way out
await_future(s) ==
    /\ pc[s] = "waitFuture"
    /\ item_future[s].state \in {"result", "exception", "cancelled"}
    /\ outcome' = [outcome EXCEPT ![s] =
           CASE item_future[s].state = "result" ->
                    [kind |-> "value", val |-> item_future[s].val, err |-> "none"]
             [] item_future[s].state = "exception" ->
                    [kind |-> "error", val |-> NoVal, err |-> item_future[s].err]
             [] OTHER ->
                    [kind |-> "cancelled", val |-> NoVal, err |-> "CancelledError"]]
    /\ pc' = [pc EXCEPT ![s] = "done"]
    /\ lock' = Released(s)
    /\ UNCHANGED <<now, current_batch, last_process_time, item_text, item_future,
                   batch_to_process, flushed, appended, bad_sets, rate_vars, cache_vars, ext_vars>>

\* The caller's task is cancelled while suspended (asyncio.gather in
\* process_document is cancelled with its request).  At line 36 the call ends
\* before the append; at line 62 the awaited future is cancelled and the task
\* is resumed by await_future; at line 51 CancelledError is no Exception, so
\* neither handler runs and the `async with` block releases the lock.
cancel(s) ==
    /\ \/ /\ pc[s] = "acquire"
          /\ pc' = [pc EXCEPT ![s] = "done"]
          /\ outcome' = [outcome EXCEPT ![s] =
                 [kind |-> "cancelled", val |-> NoVal, err |-> "CancelledError"]]
          /\ UNCHANGED <<item_future, lock, flushed>>
       \/ /\ pc[s] = "waitFuture"
          /\ item_future[s].state = "pending"
          /\ item_future' = [item_future EXCEPT ![s].state = "cancelled"]
          /\ UNCHANGED <<pc, outcome, lock, flushed>>
       \/ /\ pc[s] = "processing"
          /\ pc' = [pc EXCEPT ![s] = "done"]
          /\ outcome' = [outcome EXCEPT ![s] =
                 [kind |-> "cancelled", val |-> NoVal, err |-> "CancelledError"]]
          /\ lock' = Released(s)
          /\ flushed' = [flushed EXCEPT ![EntryOf(s)].provider = "cancelled"]
          /\ UNCHANGED item_future
    /\ UNCHANGED <<now, current_batch, last_process_time, item_text,
                   batch_to_process, appended, bad_sets, rate_vars, cache_vars, ext_vars>>

NextBatch ==
    \/ Tick
    \/ \E s \in Tasks : add_embedding_task(s)
    \/ \E s \in Tasks : add_to_batch(s)
    \/ \E s \in Tasks : process_embedding_batch(s)
    \/ \E s \in Tasks : await_future(s)
    \/ \E s \in Tasks : cancel(s)

SpecBatch == Init /\ [][NextBatch]_vars

\* The event loop runs every task that can run, the lock wakes its waiters in
\* turn, and the provider call terminates.  Time and cancellation are the
\* environment's and carry no fairness.
FairSpecBatch ==
    /\ SpecBatch
    /\ \A s \in Tasks : WF_vars(add_embedding_task(s))
    /\ \A s \in Tasks : SF_vars(add_to_batch(s))
    /\ \A s \in Tasks : WF_vars(process_embedding_batch(s))
    /\ \A s \in Tasks : WF_vars(await_future(s))

(***************************************************************************)
(* SecurityManager.check_rate_limit                                        *)
(***************************************************************************)
Recent_NoPrune(window, current_time) == window

Recent_Inclusive(window, current_time) ==
    SelectSeq(window, LAMBDA t : current_time - t <= WINDOW)

\* lines 87-88 and 97-98: [t for t in window if current_time - t < 60]
Recent(window, current_time) ==
    SelectSeq(window, LAMBDA t : current_time - t < WINDOW)

Admitted_Exclusive(recent) == Len(recent) < MAX_REQUESTS_PER_MINUTE

Admitted_OneMore(recent) == Len(recent) <= MAX_REQUESTS_PER_MINUTE + 1

\* line 91
Admitted(recent) == Len(recent) <= MAX_REQUESTS_PER_MINUTE

cleanup_KeepEmpty(counts, current_time) ==
    [ip \in DOMAIN counts |-> Recent(counts[ip], current_time)]

cleanup_DropAll(counts, current_time) == [ip \in {} |-> << >>]

\* _cleanup_old_requests, lines 93-100: prune every window, delete empty ones.
\* check_rate_limit runs without suspension, so the sweep's own time.time()
\* reads the same clock value as the calling check.
cleanup_old_requests(counts, current_time) ==
    LET live == {ip \in DOMAIN counts : Recent(counts[ip], current_time) # << >>}
    IN  [ip \in live |-> Recent(counts[ip], current_time)]

\* seconds pass between two requests
Advance ==
    /\ \E d \in Steps :
         /\ now + d <= MaxClock
         /\ now' = now + d
    /\ UNCHANGED <<batch_vars, rate_vars, cache_vars, ext_vars>>

TotalCalls == Len(calls["ip1"]) + Len(calls["ip2"])

\* check_rate_limit, lines 67-91: the state it leaves and the answer it gives
RateLimit(counts, last, client_ip, current_time) ==
    LET sweep == current_time - last > CLEANUP_INTERVAL
        swept == IF sweep THEN cleanup_old_requests(counts, current_time) ELSE counts
        window == IF client_ip \in DOMAIN swept THEN swept[client_ip] ELSE << >>
        recent_requests == Recent(Append(window, current_time), current_time)
    IN  [last_cleanup |-> IF sweep THEN current_time ELSE last,
         request_counts |->
             [ip \in DOMAIN swept \cup {client_ip} |->
                 IF ip = client_ip THEN recent_requests ELSE swept[ip]],
         allowed |-> Admitted(recent_requests)]

\* check_rate_limit, lines 67-91, for a request from client_ip
check_rate_limit(client_ip) ==
    /\ TotalCalls < MaxCalls
    /\ LET r == RateLimit(request_counts, last_cleanup, client_ip, now)
       IN  /\ last_cleanup' = r.last_cleanup
           /\ request_counts' = r.request_counts
           /\ calls' = [calls EXCEPT ![client_ip] =
                  Append(@, [t |-> now, allowed |-> r.allowed])]
    /\ UNCHANGED <<now, batch_vars, cache_vars, ext_vars>>

NextRate ==
    \/ Advance
    \/ \E ip \in IPs : check_rate_limit(ip)

SpecRate == Init /\ [][NextRate]_vars

(***************************************************************************)
(* LRUCache                                                                *)
(***************************************************************************)
\* _generate_key, lines 23-29, for string key data: the SHA-256 digest of
\* the string
generate_key(key_data) == [sha256 |-> key_data]

\* CacheItem.__init__, lines 10-13
CacheItem(key, value, expire_time) ==
    [key |-> key, value |-> value, expire_time |-> expire_time, hits |-> 0]

\* key in self.cache
Has(c, key) == \E i \in 1 .. Len(c) : c[i].key = key

\* self.cache[key]
ItemOf(c, key) == c[CHOOSE i \in 1 .. Len(c) : c[i].key = key]

\* del self.cache[key]
Delete(c, key) == SelectSeq(c, LAMBDA e : e.key # key)

MoveToEnd_Stay(c, key) == c

\* self.cache.move_to_end(key)
MoveToEnd(c, key) == Append(Delete(c, key), ItemOf(c, key))

\* self.cache[key] = item: a new key goes to the end, a known key keeps its place
Store(c, item) ==
    IF Has(c, item.key)
    THEN [i \in 1 .. Len(c) |-> IF c[i].key = item.key THEN item ELSE c[i]]
    ELSE Append(c, item)

Live_Inclusive(item, t) == item.expire_time >= t

\* line 38: item.expire_time > now
Live(item, t) == item.expire_time > t

Expired_Strict(item, t) == item.expire_time < t

\* line 73: item.expire_time <= now
Expired(item, t) == item.expire_time <= t

RECURSIVE Evict_OffByOne(_)
Evict_OffByOne(c) == IF Len(c) > MaxSize + 1 THEN Evict_OffByOne(Tail(c)) ELSE c

RECURSIVE Evict_Newest(_)
Evict_Newest(c) ==
    IF Len(c) > MaxSize THEN Evict_Newest(SubSeq(c, 1, Len(c) - 1)) ELSE c

\* lines 64-65: while len(self.cache) > self.max_size: popitem(last=False)
RECURSIVE Evict(_)
Evict(c) == IF Len(c) > MaxSize THEN Evict(Tail(c)) ELSE c

\* get, lines 33-47: the cache after the call and the value returned
CacheGet(c, key, t) ==
    IF Has(c, key)
    THEN IF Live(ItemOf(c, key), t)
         THEN LET moved == MoveToEnd(c, key) IN
              [cache |-> [i \in 1 .. Len(moved) |->
                            IF i = Len(moved)
                            THEN [moved[i] EXCEPT !.hits = @ + 1]
                            ELSE moved[i]],
               value |-> ItemOf(c, key).value]
         ELSE [cache |-> Delete(c, key), value |-> Absent]
    ELSE [cache |-> c, value |-> Absent]

\* set, lines 56-65
CacheSet(c, key, value, expire_seconds, t) ==
    Evict(MoveToEnd(Store(c, CacheItem(key, value, t + expire_seconds)), key))

\* cleanup, lines 69-76
CacheCleanup(c, t) == SelectSeq(c, LAMBDA e : ~Expired(e, t))

\* history only: the keys by last touch, oldest first
Touch(order, key) == Append(SelectSeq(order, LAMBDA k : k # key), key)
Forget(order, kept) == SelectSeq(order, LAMBDA k : k \in kept)
KeysOf(c) == {c[i].key : i \in 1 .. Len(c)}

\* LRUCache.get(key_data)
LRUCache_get(key_data) ==
    /\ op_count < MaxOps
    /\ LET key == generate_key(key_data)
           r == CacheGet(cache, key, now)
       IN  /\ cache' = r.cache
           /\ recency' = IF r.value # Absent THEN Touch(recency, key)
                                                ELSE Forget(recency, KeysOf(r.cache))
           /\ last_op' = [op |-> "get", key |-> key_data, value |-> Absent, ttl |-> 0,
                          t |-> now, result |-> r.value, before |-> cache,
                          order |-> recency]
    /\ op_count' = op_count + 1
    /\ UNCHANGED <<now, batch_vars, rate_vars, ext_vars>>

\* LRUCache.set(key_data, value, expire_seconds).  The cache never looks
\* into a value; every set stores a value of its own (the number of the
\* operation), so a stale value is told from the one just stored.
LRUCache_set(key_data) ==
    /\ op_count < MaxOps
    /\ \E expire_seconds \in TTLs :
         LET key == generate_key(key_data)
             value == op_count + 1
         IN
         /\ cache' = CacheSet(cache, key, value, expire_seconds, now)
         /\ recency' = Forget(Touch(recency, key), KeysOf(cache'))
         /\ last_op' = [op |-> "set", key |-> key_data, value |-> value,
                        ttl |-> expire_seconds, t |-> now, result |-> Absent,
                        before |-> cache, order |-> recency]
    /\ op_count' = op_count + 1
    /\ UNCHANGED <<now, batch_vars, rate_vars, ext_vars>>

\* LRUCache.cleanup(): the lock is free whenever a call starts, so the call
\* runs from line 69 to line 76 without suspension
LRUCache_cleanup ==
    /\ op_count < MaxOps
    /\ cache' = CacheCleanup(cache, now)
    /\ recency' = Forget(recency, KeysOf(cache'))
    /\ last_op' = [op |-> "cleanup", key |-> "none", value |-> Absent, ttl |-> 0,
                   t |-> now, result |-> Absent, before |-> cache, order |-> recency]
    /\ op_count' = op_count + 1
    /\ UNCHANGED <<now, batch_vars, rate_vars, ext_vars>>

NextCache ==
    \/ Tick
    \/ \E key_data \in KeyData : LRUCache_get(key_data)
    \/ \E key_data \in KeyData : LRUCache_set(key_data)
    \/ LRUCache_cleanup

SpecCache == Init /\ [][NextCache]_vars

(***************************************************************************)
(* LRUCache.cleanup step by step, beside get and set on one event loop.    *)
(* The loop runs one coroutine at a time and changes to another one only   *)
(* where the running one suspends; `running` names the cleanup call that   *)
(* has started and has not reached a suspension point or its end.          *)
(***************************************************************************)
Suspends_InBody(at) == at = "scan"

\* lines 70-76 hold no await: the body of the `async with` never suspends
Suspends(at) == FALSE

\* the loop after a step of cleanup call w
LoopAfter(w, at) == IF Suspends(at) THEN NoSweeper ELSE w

\* lines 71-74: the keys of the expired items, in the order of the dict
ExpiredKeys(c, t) ==
    LET e == SelectSeq(c, LAMBDA item : Expired(item, t))
    IN  [i \in 1 .. Len(e) |-> e[i].key]

\* lines 69-74: `async with self._cleanup_lock` (a call that finds the lock
\* held suspends in acquire until it is released), now = time.time() and
\* the list of expired keys
cleanup_enter(w) ==
    /\ op_count < MaxOps
    /\ running = NoSweeper
    /\ cleanup_pc[w] = "idle"
    /\ cleanup_lock = NoSweeper
    /\ cleanup_lock' = w
    /\ cleanup_now' = [cleanup_now EXCEPT ![w] = now]
    /\ expired_keys' = [expired_keys EXCEPT ![w] = ExpiredKeys(cache, now)]
    /\ cleanup_pc' = [cleanup_pc EXCEPT ![w] = "delete"]
    /\ running' = LoopAfter(w, "scan")
    /\ last_op' = [op |-> "cleanup", key |-> "none", value |-> Absent, ttl |-> 0,
                   t |-> now, result |-> Absent, before |-> cache, order |-> recency]
    /\ op_count' = op_count + 1
    /\ UNCHANGED <<now, batch_vars, rate_vars, cache, recency, ctx_vars, chat_vars,
                   split_vars, retr_vars, embed_vars>>

\* lines 75-76, one iteration: del self.cache[key]; a key that is no longer
\* in the dict raises KeyError, which leaves the `async with`
cleanup_delete(w) ==
    /\ running \in {NoSweeper, w}
    /\ cleanup_pc[w] = "delete"
    /\ expired_keys[w] # << >>
    /\ LET key == Head(expired_keys[w]) IN
       IF Has(cache, key)
       THEN /\ cache' = Delete(cache, key)
            /\ expired_keys' = [expired_keys EXCEPT ![w] = Tail(@)]
            /\ running' = LoopAfter(w, "delete")
            /\ UNCHANGED <<cleanup_lock, cleanup_pc>>
       ELSE /\ cleanup_lock' = NoSweeper
            /\ cleanup_pc' = [cleanup_pc EXCEPT ![w] = "idle"]
            /\ expired_keys' = [expired_keys EXCEPT ![w] = << >>]
            /\ running' = NoSweeper
            /\ UNCHANGED cache
    /\ recency' = Forget(recency, KeysOf(cache'))
    /\ UNCHANGED <<now, batch_vars, rate_vars, op_count, last_op, cleanup_now,
                   ctx_vars, chat_vars, split_vars, retr_vars, embed_vars>>

\* the end of the for loop and of the `async with`: the lock is released
cleanup_exit(w) ==
    /\ running \in {NoSweeper, w}
    /\ cleanup_pc[w] = "delete"
    /\ expired_keys[w] = << >>
    /\ cleanup_lock' = NoSweeper
    /\ cleanup_pc' = [cleanup_pc EXCEPT ![w] = "idle"]
    /\ running' = NoSweeper
    /\ UNCHANGED <<now, batch_vars, rate_vars, cache_vars, cleanup_now, expired_keys,
                   ctx_vars, chat_vars, split_vars, retr_vars, embed_vars>>

\* a get or a set starts only when the loop is not inside another coroutine
NextSweep ==
    \/ Tick
    \/ \E key_data \in SweepKeyData : running = NoSweeper /\ LRUCache_get(key_data)
    \/ \E key_data \in SweepKeyData : running = NoSweeper /\ LRUCache_set(key_data)
    \/ \E w \in Sweepers : cleanup_enter(w)
    \/ \E w \in Sweepers : cleanup_delete(w)
    \/ \E w \in Sweepers : cleanup_exit(w)

SpecSweep == Init /\ [][NextSweep]_vars

(***************************************************************************)
(* ChatService.get_relevant_context, _build_token_managed_context and      *)
(* _prioritize_documents.  A hit is the record of its payload and score;   *)
(* a text is known by its length in characters (after strip) and by        *)
(* whether it holds the word 'specification'; scores are in hundredths and *)
(* priority scores in thousandths.                                         *)
(***************************************************************************)
\* a hit of chunk h: the payload stored for the chunk, and the score
Hit(h, score) ==
    [chunk_hash |-> h, score |-> score,
     file_name |-> IF h = 1 THEN "zero" ELSE "skipper",
     spec |-> (h = 2), len |-> 400]

\* a hit of a packing run: every text is its own chunk of its own file
PackHit(i, score, len) ==
    [chunk_hash |-> i, score |-> score, file_name |-> "none", spec |-> FALSE,
     len |-> len]

\* the sequences of at most n elements of S
SeqsUpTo(S, n) == UNION {[1 .. k -> S] : k \in 0 .. n}

\* line 177: doc['score'] > threshold
AboveThreshold(doc) == doc.score > THRESHOLD

\* line 178: doc.get('chunk_hash', ...); every stored payload has the field
DocId(doc) == doc.chunk_hash

HasId(unique, doc_id) == \E i \in 1 .. Len(unique) : DocId(unique[i]) = doc_id
EntryFor(unique, doc_id) ==
    unique[CHOOSE i \in 1 .. Len(unique) : DocId(unique[i]) = doc_id]

Replaces_Last(unique, doc) == TRUE

\* line 179: doc_id not in unique_results or doc['score'] > unique_results[doc_id]['score']
Replaces(unique, doc) ==
    \/ ~HasId(unique, DocId(doc))
    \/ doc.score > EntryFor(unique, DocId(doc)).score

\* line 180: unique_results[doc_id] = doc; a dict keeps a key where it was
\* first inserted
Put(unique, doc) ==
    IF HasId(unique, DocId(doc))
    THEN [i \in 1 .. Len(unique) |->
            IF DocId(unique[i]) = DocId(doc) THEN doc ELSE unique[i]]
    ELSE Append(unique, doc)

\* lines 175-180: the values of unique_results after the loop
RECURSIVE UniqueResults(_, _)
UniqueResults(results, n) ==
    IF n = 0 THEN << >>
    ELSE LET unique == UniqueResults(results, n - 1)
             doc == results[n]
         IN  IF AboveThreshold(doc) /\ Replaces(unique, doc)
             THEN Put(unique, doc)
             ELSE unique

\* sorted(..., reverse=True) is stable: an element goes behind every
\* element whose key is greater or equal
InsertDesc(sorted, p) ==
    LET n == Cardinality({i \in 1 .. Len(sorted) : sorted[i].key >= p.key})
    IN  SubSeq(sorted, 1, n) \o <<p>> \o SubSeq(sorted, n + 1, Len(sorted))

RECURSIVE SortedDesc(_, _)
SortedDesc(pairs, n) ==
    IF n = 0 THEN << >> ELSE InsertDesc(SortedDesc(pairs, n - 1), pairs[n])

\* line 183: sorted(unique_results.values(), key=lambda x: x['score'], reverse=True)
SortedByScore(docs) ==
    LET pairs == [i \in 1 .. Len(docs) |-> [key |-> docs[i].score, d |-> docs[i]]]
        sorted == SortedDesc(pairs, Len(pairs))
    IN  [i \in 1 .. Len(sorted) |-> sorted[i].d]

\* the words of a sequence
Words(m) == {m[i] : i \in 1 .. Len(m)}

Boost_Damped(doc, msg) == IF doc.file_name \in Words(msg) THEN 5 ELSE 10

\* lines 258-267: the factor of the rule that applies, in tenths
Boost(doc, msg) ==
    IF doc.file_name \in Words(msg) THEN 15
    ELSE IF "specification" \in Words(msg) /\ doc.spec THEN 13
    ELSE IF Words(msg) \cap {"complete", "all", "overview", "comprehensive"} # {} THEN 12
    ELSE 10

\* lines 253-267: the document with its priority_score, in thousandths
Prioritized(doc, msg) ==
    [chunk_hash |-> doc.chunk_hash, score |-> doc.score, file_name |-> doc.file_name,
     spec |-> doc.spec, len |-> doc.len, priority_score |-> doc.score * Boost(doc, msg)]

\* line 270: sorted(docs, key=lambda x: x['priority_score'], reverse=True)
SortedByPriority(docs) ==
    LET pairs == [i \in 1 .. Len(docs) |->
                    [key |-> docs[i].priority_score, d |-> docs[i]]]
        sorted == SortedDesc(pairs, Len(pairs))
    IN  [i \in 1 .. Len(sorted) |-> sorted[i].d]

Product_Same(doc) == "any"

\* line 278: file_name.split('[')[0]; the file names of the model hold no '['
Product(doc) == doc.file_name

\* lines 277-281: the first document of every product, in order
RECURSIVE FirstOfEachProduct(_, _)
FirstOfEachProduct(sorted_docs, n) ==
    IF n = 0 THEN << >>
    ELSE LET diverse == FirstOfEachProduct(sorted_docs, n - 1)
         IN  IF \E j \in 1 .. Len(diverse) : Product(diverse[j]) = Product(sorted_docs[n])
             THEN diverse
             ELSE Append(diverse, sorted_docs[n])

\* lines 250-287
prioritize_documents(docs, msg) ==
    LET boosted == [i \in 1 .. Len(docs) |-> Prioritized(docs[i], msg)]
        sorted_docs == SortedByPriority(boosted)
        diverse_docs == FirstOfEachProduct(sorted_docs, Len(sorted_docs))
        remaining_docs ==
            SelectSeq(sorted_docs,
                      LAMBDA d : ~\E j \in 1 .. Len(diverse_docs) : diverse_docs[j] = d)
    IN  diverse_docs \o remaining_docs

\* len(text[:max_chars]): a negative bound counts from the end of the text
SliceLen(len, max_chars) ==
    IF max_chars >= 0 THEN Min(len, max_chars)
    ELSE IF len + max_chars > 0 THEN len + max_chars ELSE 0

\* line 215
EstimatedTokens(len) == len \div CHARS_PER_TOKEN

Overflows_Strict(total, estimated, limit) == total + estimated > limit + 1

\* line 218
Overflows(total, estimated, limit) == total + estimated > limit

\* line 220: doc['score'] > 0.7 and total_tokens < max_tokens * 0.8
FitsTruncated(doc, total, limit) ==
    doc.score > HIGH_RELEVANCE /\ 10 * total < 8 * limit

\* lines 221-223: len(truncated_text)
TruncatedLen(len, total, limit) ==
    LET remaining_tokens == limit - total - TRUNCATE_BUFFER
        max_chars == remaining_tokens * CHARS_PER_TOKEN
    IN  SliceLen(len, max_chars) + ELLIPSIS_LEN

\* lines 143-169: the searches have returned
get_relevant_context(msg, results, max_context_tokens) ==
    /\ ctx_pc = "idle"
    /\ message' = msg
    /\ all_results' = results
    /\ max_tokens' = max_context_tokens
    /\ ctx_pc' = "dedupe"
    /\ UNCHANGED <<filtered_docs, prioritized_docs, doc_i, context_parts,
                   total_tokens, final_context>>
    /\ UNCHANGED <<now, batch_vars, rate_vars, cache_vars, sweep_vars, chat_vars, split_vars, retr_vars, embed_vars>>

\* lines 171-172: no hit at all, the call returns None
return_none ==
    /\ ctx_pc = "dedupe"
    /\ all_results = << >>
    /\ final_context' = NoContext
    /\ ctx_pc' = "done"
    /\ UNCHANGED <<message, all_results, max_tokens, filtered_docs, prioritized_docs,
                   doc_i, context_parts, total_tokens>>
    /\ UNCHANGED <<now, batch_vars, rate_vars, cache_vars, sweep_vars, chat_vars, split_vars, retr_vars, embed_vars>>

\* lines 174-183
dedupe ==
    /\ ctx_pc = "dedupe"
    /\ all_results # << >>
    /\ filtered_docs' = SortedByScore(UniqueResults(all_results, Len(all_results)))
    /\ ctx_pc' = "build"
    /\ UNCHANGED <<message, all_results, max_tokens, prioritized_docs, doc_i,
                   context_parts, total_tokens, final_context>>
    /\ UNCHANGED <<now, batch_vars, rate_vars, cache_vars, sweep_vars, chat_vars, split_vars, retr_vars, embed_vars>>

\* lines 188 and 202-207: _build_token_managed_context up to its loop
build_token_managed_context ==
    /\ ctx_pc = "build"
    /\ prioritized_docs' = prioritize_documents(filtered_docs, message)
    /\ context_parts' = << >>
    /\ total_tokens' = 0
    /\ doc_i' = 1
    /\ ctx_pc' = "pack"
    /\ UNCHANGED <<message, all_results, max_tokens, filtered_docs, final_context>>
    /\ UNCHANGED <<now, batch_vars, rate_vars, cache_vars, sweep_vars, chat_vars, split_vars, retr_vars, embed_vars>>

\* lines 209-238: one iteration of the packing loop
pack ==
    /\ ctx_pc = "pack"
    /\ doc_i <= Len(prioritized_docs)
    /\ LET doc == prioritized_docs[doc_i]
           estimated_tokens == EstimatedTokens(doc.len)
       IN
       IF doc.len < MIN_TEXT_LEN
       THEN \* lines 211-212: continue
            /\ doc_i' = doc_i + 1
            /\ UNCHANGED <<context_parts, total_tokens, ctx_pc>>
       ELSE IF Overflows(total_tokens, estimated_tokens, max_tokens)
       THEN \* lines 219-227: a truncated part or nothing, then break
            /\ IF FitsTruncated(doc, total_tokens, max_tokens)
               THEN LET n == TruncatedLen(doc.len, total_tokens, max_tokens) IN
                    /\ context_parts' =
                           Append(context_parts,
                                  [kind |-> "truncated", chunk_hash |-> doc.chunk_hash,
                                   len |-> PREFIX_LEN + n])
                    /\ total_tokens' = total_tokens + (n \div CHARS_PER_TOKEN)
               ELSE UNCHANGED <<context_parts, total_tokens>>
            /\ ctx_pc' = "join"
            /\ UNCHANGED doc_i
       ELSE \* lines 235-236
            /\ context_parts' =
                   Append(context_parts,
                          [kind |-> "full", chunk_hash |-> doc.chunk_hash,
                           len |-> doc.len])
            /\ total_tokens' = total_tokens + estimated_tokens
            /\ doc_i' = doc_i + 1
            /\ UNCHANGED ctx_pc
    /\ UNCHANGED <<message, all_results, max_tokens, filtered_docs, prioritized_docs,
                   final_context>>
    /\ UNCHANGED <<now, batch_vars, rate_vars, cache_vars, sweep_vars, chat_vars, split_vars, retr_vars, embed_vars>>

\* lines 240-245: the loop is over, the parts are joined and returned
join ==
    /\ \/ ctx_pc = "join"
       \/ ctx_pc = "pack" /\ doc_i > Len(prioritized_docs)
    /\ final_context' = [kind |-> "str", parts |-> context_parts]
    /\ ctx_pc' = "done"
    /\ UNCHANGED <<message, all_results, max_tokens, filtered_docs, prioritized_docs,
                   doc_i, context_parts, total_tokens>>
    /\ UNCHANGED <<now, batch_vars, rate_vars, cache_vars, sweep_vars, chat_vars, split_vars, retr_vars, embed_vars>>

ContextSteps ==
    \/ return_none
    \/ dedupe
    \/ build_token_managed_context
    \/ pack
    \/ join

\* the hits of the ranking runs: any chunk with any score, in any order
RankResults == SeqsUpTo({Hit(h, sc) : h \in ChunkHashes, sc \in Scores}, NumHits)

NextRank ==
    \/ \E msg \in Messages, results \in RankResults :
          get_relevant_context(msg, results, MAX_CONTEXT_TOKENS)
    \/ ContextSteps

SpecRank == Init /\ [][NextRank]_vars

\* the hits of the packing runs: texts of any length, each its own chunk
PackResults ==
    UNION {{[i \in 1 .. k |-> PackHit(i, f[i][1], f[i][2])] :
               f \in [1 .. k -> PackScores \X TextLens]} : k \in 0 .. NumHits}

NextPack ==
    \/ \E results \in PackResults, max_context_tokens \in Budgets :
          get_relevant_context(<<"hello">>, results, max_context_tokens)
    \/ ContextSteps

SpecPack == Init /\ [][NextPack]_vars

(***************************************************************************)
(* The searches of get_relevant_context, lines 143-169, one at a time.     *)
(* The words of a message are matched as words (the code looks for them    *)
(* as substrings, which is the same for the messages below).               *)
(***************************************************************************)
\* the first n elements of a list: list[:n]
Take(list, n) == SubSeq(list, 1, Min(n, Len(list)))

\* the literal lists of _generate_expanded_queries, lines 296-331
VehicleQueries ==
    <<"JeGO Zero electric vehicle", "JeGO Skipper truck specifications",
      "JeGO Skipper van features", "JeGO Zero Pro specifications",
      "JeGO Zero Carbon vehicle", "JeGO vehicles product catalog",
      "JeGO automotive products">>
PowerQueries ==
    <<"JeGO Power Systems catalog", "JeGO Mega Power Pod BESS",
      "JeGO 5-Series EV Charger", "JeGO Charger Systems",
      "JeGO energy storage solutions">>
SmartCityQueries ==
    <<"JeGO Smart Cities solutions", "JeGO urban transportation",
      "JeGO smart city transformation">>
ProductQueries ==
    <<"JeGO product catalog", "JeGO complete product line",
      "JeGO all products overview", "JeGO product specifications">>

\* the list, if one of the words is in the message
QueriesFor(msg, words, queries) ==
    IF Words(msg) \cap words # {} THEN queries ELSE << >>

\* _generate_expanded_queries, lines 289-334
generate_expanded_queries(msg) ==
    Take(QueriesFor(msg, {"car", "vehicle", "auto", "transport", "list"}, VehicleQueries)
         \o QueriesFor(msg, {"power", "energy", "battery", "charger"}, PowerQueries)
         \o QueriesFor(msg, {"smart", "city", "urban"}, SmartCityQueries)
         \o QueriesFor(msg, {"product", "all", "complete", "full", "entire"},
                       ProductQueries),
         5)

\* the user messages of the retrieval runs: no expansion, three smart-city
\* expansions, seven expansions of which three are issued
RetrievalMessages == {<<"hello">>, <<"smart", "city">>, <<"all", "car">>}

\* what one search returns: nothing or one hit.  Chunk 2 is found with two
\* scores, chunk 3 is of the same file as chunk 2, one hit is below the
\* threshold.
RetrievedHits == {Hit(1, 40), Hit(1, 20), Hit(2, 80), Hit(2, 40), Hit(3, 60)}
SearchResults == {<< >>} \cup {<<h>> : h \in RetrievedHits}

\* the name of the original query in the history of searches
OriginalQuery == "original"

\* lines 143-157: the call embeds the message and searches for it.  When
\* the embedding (line 145) or the search (line 148) raises, line 190
\* catches the exception and line 192 returns None.
main_search(msg, ok, hits) ==
    /\ ctx_pc = "idle"
    /\ message' = msg
    /\ max_tokens' = MAX_CONTEXT_TOKENS
    /\ searches' = <<[query |-> OriginalQuery, ok |-> ok,
                      hits |-> IF ok THEN hits ELSE << >>]>>
    /\ IF ok
       THEN LET queries == Take(generate_expanded_queries(msg), 3) IN
            /\ all_results' = hits
            /\ expanded_queries' = queries
            /\ query_i' = 1
            /\ ctx_pc' = IF queries = << >> THEN "dedupe" ELSE "expand"
            /\ UNCHANGED final_context
       ELSE /\ final_context' = NoContext
            /\ ctx_pc' = "done"
            /\ UNCHANGED <<all_results, expanded_queries, query_i>>
    /\ UNCHANGED <<filtered_docs, prioritized_docs, doc_i, context_parts, total_tokens>>
    /\ UNCHANGED <<now, batch_vars, rate_vars, cache_vars, sweep_vars, chat_vars, split_vars,
                   embed_vars>>

NextQuery_Break(i, n) == n + 1

\* line 169: `continue` goes to the next expanded query
NextQuery(i, n) == i + 1

\* lines 159-169: one iteration of the loop over expanded_queries[:3]
expanded_search(ok, hits) ==
    /\ ctx_pc = "expand"
    /\ LET n == Len(expanded_queries)
           next == IF ok THEN query_i + 1 ELSE NextQuery(query_i, n)
       IN  /\ searches' = Append(searches,
                  [query |-> expanded_queries[query_i], ok |-> ok,
                   hits |-> IF ok THEN hits ELSE << >>])
           /\ all_results' = IF ok THEN all_results \o hits ELSE all_results
           /\ query_i' = next
           /\ ctx_pc' = IF next > n THEN "dedupe" ELSE "expand"
    /\ UNCHANGED <<message, max_tokens, expanded_queries, filtered_docs, prioritized_docs,
                   doc_i, context_parts, total_tokens, final_context>>
    /\ UNCHANGED <<now, batch_vars, rate_vars, cache_vars, sweep_vars, chat_vars, split_vars,
                   embed_vars>>

NextRetrieve ==
    \/ \E msg \in RetrievalMessages, ok \in BOOLEAN, hits \in SearchResults :
          main_search(msg, ok, hits)
    \/ \E ok \in BOOLEAN, hits \in SearchResults : expanded_search(ok, hits)
    \/ ContextSteps

SpecRetrieve == Init /\ [][NextRetrieve]_vars

(***************************************************************************)
(* The chat endpoints (api/routes/chat.py), ChatService.process_message    *)
(* and the response cache of CacheService.  The requests of the model are  *)
(* served one after the other.  A response_data dict is known by its       *)
(* number in `responses`; the cache holds the number.                      *)
(***************************************************************************)
\* cache_service.py lines 120, 132: " ".join(query.lower().split())
Normalize(query) == IF query = "Q1 " THEN "q1" ELSE query

\* SecurityManager.validate_input, security.py lines 22-43
validate_input(text) == text # "<script>"

\* CacheService.check_cleanup, lines 98-109, for the response cache
CheckCleanup(c, last, t) ==
    IF t - last > CACHE_CLEANUP_INTERVAL
    THEN [cache |-> CacheCleanup(c, t), last |-> t]
    ELSE [cache |-> c, last |-> last]

\* CacheService.get_cached_response, lines 126-138
GetCachedResponse(c, last, query, t) ==
    LET got == CacheGet(c, generate_key(Normalize(query)), t)
        swept == CheckCleanup(got.cache, last, t)
    IN  [cache |-> swept.cache, last |-> swept.last, value |-> got.value]

\* CacheService.cache_response, lines 111-124
CacheResponse(c, last, query, value, t) ==
    CheckCleanup(CacheSet(c, generate_key(Normalize(query)), value, RESPONSE_TTL, t),
                 last, t)

TrimmedHistory_Uncut(history, session) ==
    IF session \in DOMAIN history THEN history[session] ELSE << >>

\* chat_service.py lines 76-82: the session's history, created if missing
\* and cut to its last 5 messages
TrimmedHistory(history, session) ==
    LET h == IF session \in DOMAIN history THEN history[session] ELSE << >>
    IN  IF Len(h) > HISTORY_KEPT
        THEN SubSeq(h, Len(h) - HISTORY_KEPT + 1, Len(h))
        ELSE h

\* history with the messages of one session replaced
WithHistory(history, session, h) ==
    [s \in DOMAIN history \cup {session} |-> IF s = session THEN h ELSE history[s]]

\* what get_relevant_context returns when nothing in it fails: None (line
\* 172), the empty string (line 240 on no part) or the joined parts
EmptyContext == [kind |-> "str", parts |-> << >>]
SomeContext ==
    [kind |-> "str", parts |-> <<[kind |-> "full", chunk_hash |-> 1, len |-> 400]>>]
Contexts == {NoContext, EmptyContext, SomeContext}

\* lines 190-192: any exception inside get_relevant_context is logged and
\* None is returned
ReturnedContext(context, fails_at) ==
    IF fails_at \in RetrievalFailures THEN NoContext ELSE context

ContextUsed_NotNone(context) == context.kind # "none"

\* lines 72, 99, 106, 115: bool(context); None and the empty string are
\* false, and every part is a text of 50 characters or more
ContextUsed(context) == context.kind = "str" /\ context.parts # << >>

\* lines 59-73: the system message, with or without the context
SystemMessage(context) ==
    [role |-> "system",
     content |-> IF ContextUsed(context) THEN "instructions+context" ELSE "instructions"]

\* lines 80-84: the messages of the completion request
RequestMessages(context, trimmed, msg) ==
    <<SystemMessage(context)>> \o trimmed \o <<[role |-> "user", content |-> msg]>>

\* SecurityManager.encrypt_conversation, security.py lines 47-55: a token
\* that only the key turns back into the text
encrypt_conversation(conversation) == [fernet |-> conversation]

\* no completion request was made
NoRequest == << >>

\* lines 93-96
Exchange(msg) ==
    <<[role |-> "user", content |-> msg], [role |-> "assistant", content |-> msg]>>

WrittenBack_BeforeEncrypt(fails_at) == fails_at \in {"none", "encrypt"} \cup RetrievalFailures

\* line 121 is reached only when no earlier line has raised
WrittenBack(fails_at) == fails_at \in {"none"} \cup RetrievalFailures

\* ChatService.process_message, lines 26-134: what the call leaves behind
\* and how it ends.  msg is valid, or the call ends at line 50.  `context`
\* is what get_relevant_context returns unless its retrieval fails.
ProcessMessage(session, msg, context, fails_at) ==
    LET t == now
        looked == GetCachedResponse(response_cache, last_cleanup_time, msg, t)
        same == [cache |-> looked.cache, last |-> looked.last,
                 history |-> conversation_history, completions |-> completion_calls,
                 responses |-> responses, served |-> Absent, request |-> NoRequest,
                 failed |-> "none"]
    IN
    IF looked.value # Absent
    THEN \* lines 31-46: the cached dict is returned after one more analysis
         [same EXCEPT !.completions = completion_calls + 1,
                      !.served = looked.value] @@ [outcome |-> "hit"]
    ELSE IF ~validate_input(msg)
    THEN same @@ [outcome |-> "validate"]
    ELSE IF fails_at = "embedding"
    THEN [same EXCEPT !.failed = fails_at] @@ [outcome |-> "embedding"]
    ELSE LET trimmed == TrimmedHistory(conversation_history, session)
             returned == ReturnedContext(context, fails_at)
             messages == RequestMessages(returned, trimmed, msg)
         IN
         IF fails_at = "completion"
         THEN \* lines 76-90: the history is created and cut, the call is made
              [same EXCEPT !.history = WithHistory(conversation_history, session, trimmed),
                           !.completions = completion_calls + 1,
                           !.request = messages,
                           !.failed = fails_at]
                  @@ [outcome |-> "completion"]
         ELSE LET extended == WithHistory(conversation_history, session,
                                          trimmed \o Exchange(msg))
                  data == [context_used |-> ContextUsed(returned),
                           encrypted_history |-> encrypt_conversation(messages)]
                  number == Len(responses) + 1
                  written == CacheResponse(looked.cache, looked.last, msg, number, t)
                  raised == fails_at = "encrypt"
              IN  \* lines 87-130: the completion, the analysis, the
                  \* encryption, the write-back
                  [cache |-> IF WrittenBack(fails_at) THEN written.cache ELSE looked.cache,
                   last |-> IF WrittenBack(fails_at) THEN written.last ELSE looked.last,
                   history |-> extended,
                   completions |-> completion_calls + 2,
                   responses |-> IF WrittenBack(fails_at) THEN Append(responses, data)
                                                          ELSE responses,
                   served |-> IF raised THEN Absent ELSE number,
                   request |-> messages,
                   failed |-> fails_at,
                   outcome |-> IF raised THEN "encrypt" ELSE "ok"]

\* the choices that make no difference to a call are not drawn twice
Canonical(msg, context, fails_at) ==
    /\ ~validate_input(msg) => (fails_at = "none" /\ context = SomeContext)
    /\ fails_at # "none" => context = SomeContext

\* the requests that reached process_message
Processed == Cardinality({i \in 1 .. Len(chat_log) : chat_log[i].invoked})

\* POST /chat, chat.py lines 90-158.  An HTTPException raised inside the try
\* (line 101) is an Exception: line 156 catches it and line 158 raises
\* status 500 in its place.
chat_endpoint(client, msg, context, fails_at) ==
    /\ Len(chat_log) < MaxRequests
    /\ Canonical(msg, context, fails_at)
    /\ LET rate == RateLimit(request_counts, last_cleanup, client.ip, now) IN
       /\ rate.allowed => Processed < MaxProcessed
       /\ request_counts' = rate.request_counts
       /\ last_cleanup' = rate.last_cleanup
       /\ calls' = [calls EXCEPT ![client.ip] =
              Append(@, [t |-> now, allowed |-> rate.allowed])]
       /\ cache_before' = response_cache
       /\ history_before' = conversation_history
       /\ IF ~rate.allowed
          THEN /\ chat_log' = Append(chat_log,
                      [op |-> "chat", t |-> now, session |-> client.session, msg |-> msg,
                       allowed |-> FALSE, invoked |-> FALSE, outcome |-> "denied",
                       status |-> 500, served |-> Absent,
                       completions |-> completion_calls, request |-> NoRequest,
                       failed |-> "none"])
               /\ UNCHANGED <<response_cache, last_cleanup_time, conversation_history,
                              completion_calls, responses>>
          ELSE LET r == ProcessMessage(client.session, msg, context, fails_at) IN
               /\ response_cache' = r.cache
               /\ last_cleanup_time' = r.last
               /\ conversation_history' = r.history
               /\ completion_calls' = r.completions
               /\ responses' = r.responses
               /\ chat_log' = Append(chat_log,
                      [op |-> "chat", t |-> now, session |-> client.session, msg |-> msg,
                       allowed |-> TRUE, invoked |-> TRUE, outcome |-> r.outcome,
                       status |-> IF r.outcome \in {"ok", "hit"} THEN 200 ELSE 500,
                       served |-> r.served, completions |-> r.completions,
                       request |-> r.request, failed |-> r.failed])
    /\ UNCHANGED <<now, batch_vars, cache_vars, sweep_vars, ctx_vars, split_vars, retr_vars, embed_vars>>

\* POST /chat/clear/{session_id}, chat.py lines 312-322: ChatService has no
\* attribute clear_history, so line 318 raises AttributeError and line 322
\* answers with status 500
clear_chat_history(session) ==
    /\ Len(chat_log) < MaxRequests
    /\ cache_before' = response_cache
    /\ history_before' = conversation_history
    /\ chat_log' = Append(chat_log,
           [op |-> "clear", t |-> now, session |-> session, msg |-> "none",
            allowed |-> TRUE, invoked |-> FALSE, outcome |-> "AttributeError",
            status |-> 500, served |-> Absent, completions |-> completion_calls,
            request |-> NoRequest, failed |-> "none"])
    /\ UNCHANGED <<response_cache, last_cleanup_time, conversation_history,
                   completion_calls, responses>>
    /\ UNCHANGED <<now, batch_vars, rate_vars, cache_vars, sweep_vars, ctx_vars, split_vars, retr_vars, embed_vars>>

\* seconds pass between two requests
time_passes ==
    /\ \E t \in ChatTimes :
         /\ t > now
         /\ now' = t
    /\ UNCHANGED <<batch_vars, rate_vars, cache_vars, ext_vars>>

NextChat ==
    \/ time_passes
    \/ \E client \in Clients, context \in Contexts, fails_at \in Failures :
          \E msg \in ChatMessages(client) :
              chat_endpoint(client, msg, context, fails_at)
    \/ \E client \in Clients : clear_chat_history(client.session)

SpecChat == Init /\ [][NextChat]_vars

\* a direct call of process_message, lines 17-134
process_message(session, msg, context, fails_at) ==
    /\ Len(chat_log) < MaxMessages
    /\ Canonical(msg, context, fails_at)
    /\ cache_before' = response_cache
    /\ history_before' = conversation_history
    /\ LET r == ProcessMessage(session, msg, context, fails_at) IN
       /\ response_cache' = r.cache
       /\ last_cleanup_time' = r.last
       /\ conversation_history' = r.history
       /\ completion_calls' = r.completions
       /\ responses' = r.responses
       /\ chat_log' = Append(chat_log,
              [op |-> "process", t |-> now, session |-> session, msg |-> msg,
               allowed |-> TRUE, invoked |-> TRUE, outcome |-> r.outcome,
               status |-> IF r.outcome \in {"ok", "hit"} THEN 200 ELSE 500,
               served |-> r.served, completions |-> r.completions,
               request |-> r.request, failed |-> r.failed])
    /\ UNCHANGED <<now, batch_vars, rate_vars, cache_vars, sweep_vars, ctx_vars, split_vars, retr_vars, embed_vars>>

\* the sessions call process_message one after the other, each with its
\* question
NextHistory ==
    \E client \in Clients, fails_at \in HistoryFailures :
        process_message(client.session, client.question, SomeContext, fails_at)

SpecHistory == Init /\ [][NextHistory]_vars

(***************************************************************************)
(* TextSplitter.split_text (app/utils/text_splitter.py).  A word is known  *)
(* by its length, a paragraph by its words, a chunk by its length; the     *)
(* separator and the blank between two words are one character each.       *)
(***************************************************************************)
RECURSIVE Sum(_, _)
Sum(lens, n) == IF n = 0 THEN 0 ELSE Sum(lens, n - 1) + lens[n]

\* len(sep.join(parts)) for a separator of one character
JoinLen(lens) == IF lens = << >> THEN 0 ELSE Sum(lens, Len(lens)) + Len(lens) - 1

\* sum(len(c) + 1 for c in parts), lines 53 and 66
SizeOf(lens) == Sum(lens, Len(lens)) + Len(lens)

\* line 51: temp_chunk[-self.chunk_overlap:], which is the whole list for 0
LastWords(words, n) ==
    IF n = 0 \/ n >= Len(words) THEN words
    ELSE SubSeq(words, Len(words) - n + 1, Len(words))

\* lines 64-65: current_chunk[max(0, len(current_chunk) - self.chunk_overlap):]
Overlap(parts, n) ==
    LET overlap_start == IF Len(parts) - n > 0 THEN Len(parts) - n ELSE 0
    IN  SubSeq(parts, overlap_start + 1, Len(parts))

\* lines 47-59: the chunks of a long paragraph, after its first n words
RECURSIVE SplitWords(_, _, _)
SplitWords(words, n, overlap) ==
    IF n = 0 THEN [chunks |-> << >>, temp_chunk |-> << >>, temp_size |-> 0]
    ELSE LET before == SplitWords(words, n - 1, overlap)
             word == words[n]
         IN  IF before.temp_size + word + 1 > ChunkSize
             THEN LET kept == LastWords(before.temp_chunk, overlap) \o <<word>> IN
                  [chunks |-> Append(before.chunks, JoinLen(before.temp_chunk)),
                   temp_chunk |-> kept, temp_size |-> SizeOf(kept)]
             ELSE [chunks |-> before.chunks,
                   temp_chunk |-> Append(before.temp_chunk, word),
                   temp_size |-> before.temp_size + word + 1]

\* lines 27-30: the text has been split at the separator
split_text(text, overlap) ==
    /\ split_pc = "idle"
    /\ paragraphs' = text
    /\ chunk_overlap' = overlap
    /\ chunks' = << >>
    /\ current_chunk' = << >>
    /\ current_size' = 0
    /\ para_i' = 1
    /\ split_pc' = "loop"
    /\ UNCHANGED <<now, batch_vars, rate_vars, cache_vars, sweep_vars, ctx_vars, chat_vars, retr_vars, embed_vars>>

\* lines 32-70: one iteration of the loop over the paragraphs
split_paragraph ==
    /\ split_pc = "loop"
    /\ para_i <= Len(paragraphs)
    /\ LET paragraph == paragraphs[para_i]
           length == JoinLen(paragraph)
       IN
       IF paragraph = << >>
       THEN \* lines 34-35
            UNCHANGED <<chunks, current_chunk, current_size>>
       ELSE IF length > ChunkSize
       THEN \* lines 38-60
            LET flushed_chunks == IF current_chunk # << >>
                                  THEN Append(chunks, JoinLen(current_chunk))
                                  ELSE chunks
                w == SplitWords(paragraph, Len(paragraph), chunk_overlap)
            IN  /\ chunks' = flushed_chunks \o w.chunks \o
                                  (IF w.temp_chunk # << >>
                                   THEN <<JoinLen(w.temp_chunk)>> ELSE << >>)
                /\ current_chunk' = IF current_chunk # << >> THEN << >> ELSE current_chunk
                /\ current_size' = IF current_chunk # << >> THEN 0 ELSE current_size
       ELSE IF current_size + length + 1 > ChunkSize
       THEN \* lines 63-67
            LET kept == Overlap(current_chunk, chunk_overlap) \o <<length>> IN
            /\ chunks' = Append(chunks, JoinLen(current_chunk))
            /\ current_chunk' = kept
            /\ current_size' = SizeOf(kept)
       ELSE \* lines 68-70
            /\ chunks' = chunks
            /\ current_chunk' = Append(current_chunk, length)
            /\ current_size' = current_size + length + 1
    /\ para_i' = para_i + 1
    /\ UNCHANGED <<split_pc, chunk_overlap, paragraphs>>
    /\ UNCHANGED <<now, batch_vars, rate_vars, cache_vars, sweep_vars, ctx_vars, chat_vars, retr_vars, embed_vars>>

\* lines 72-75: the last chunk, and the return
split_return ==
    /\ split_pc = "loop"
    /\ para_i > Len(paragraphs)
    /\ chunks' = IF current_chunk # << >>
                 THEN Append(chunks, JoinLen(current_chunk)) ELSE chunks
    /\ split_pc' = "done"
    /\ UNCHANGED <<chunk_overlap, paragraphs, para_i, current_chunk, current_size>>
    /\ UNCHANGED <<now, batch_vars, rate_vars, cache_vars, sweep_vars, ctx_vars, chat_vars, retr_vars, embed_vars>>

NextSplit ==
    \/ \E text \in SeqsUpTo(ParagraphKinds, NumParagraphs), overlap \in Overlaps :
          split_text(text, overlap)
    \/ split_paragraph
    \/ split_return

SpecSplit == Init /\ [][NextSplit]_vars

(***************************************************************************)
(* BatchService._get_embeddings (batch_service.py lines 156-185).  A text  *)
(* is known by its place in the argument and its length in characters; a   *)
(* call in progress is a frame of the stack.                               *)
(***************************************************************************)
\* the argument lists: one to MaxTexts texts of the lengths of TextSizes
EmbedInputs ==
    UNION {{[i \in 1 .. k |-> [id |-> i, len |-> f[i]]] : f \in [1 .. k -> TextSizes]} :
              k \in 1 .. MaxTexts}

\* line 164: sum(len(text) for text in texts)
TotalChars(texts) == Sum([i \in 1 .. Len(texts) |-> texts[i].len], Len(texts))

\* lines 165-167: total_chars / 4 > 250000, a division of floats
Oversized(texts) == TotalChars(texts) > 4 * EMBED_TOKEN_LIMIT

\* line 171: len(texts) // 2
MidPoint(texts) == Len(texts) \div 2
\* lines 172-173: texts[:mid_point] and texts[mid_point:]
FirstHalf(texts) == SubSeq(texts, 1, MidPoint(texts))
SecondHalf(texts) == SubSeq(texts, MidPoint(texts) + 1, Len(texts))

\* openai_service.create_embeddings: one vector per text, in order
Embeddings(texts) == [i \in 1 .. Len(texts) |-> [vector_of |-> texts[i]]]

Frame(texts) == [texts |-> texts, at |-> "start", first_half |-> << >>]

\* a call returns `embeddings` to its caller: a caller at line 172 goes on to
\* line 173, a caller at line 173 returns first_half + second_half (line 175)
RECURSIVE Return(_, _)
Return(stack, embeddings) ==
    IF stack = << >>
    THEN [stack |-> << >>, result |-> [kind |-> "value", val |-> embeddings]]
    ELSE LET caller == stack[Len(stack)]
             below == SubSeq(stack, 1, Len(stack) - 1)
         IN  IF caller.at = "first"
             THEN [stack |-> below \o <<[caller EXCEPT !.at = "second",
                                                       !.first_half = embeddings],
                                         Frame(SecondHalf(caller.texts))>>,
                   result |-> NoResult]
             ELSE Return(below, caller.first_half \o embeddings)

\* an exception passes every frame: each one catches it at line 183 and
\* raises another at line 185
Propagates(error) == [stack |-> << >>, result |-> [kind |-> "error", val |-> error]]

\* _get_embeddings(texts) is called, line 93
get_embeddings(texts) ==
    /\ embed_pc = "idle"
    /\ embed_pc' = "running"
    /\ embed_texts' = texts
    /\ embed_stack' = <<Frame(texts)>>
    /\ UNCHANGED <<provider_calls, embed_result>>
    /\ UNCHANGED <<now, batch_vars, rate_vars, cache_vars, sweep_vars, ctx_vars, chat_vars,
                   split_vars, retr_vars>>

\* lines 158-185 of the innermost call, up to its next call or its return.
\* What the provider does with an empty list is its own business: it
\* answers with no vector or raises.  The interpreter raises RecursionError
\* when the calls are nested deeper than its limit.
embed_step(provider_ok) ==
    /\ embed_pc = "running"
    /\ LET depth == Len(embed_stack)
           call == embed_stack[depth]
           below == SubSeq(embed_stack, 1, depth - 1)
           next ==
               IF Oversized(call.texts)
               THEN IF depth >= RecursionLimit
                    THEN Propagates("RecursionError")
                    ELSE [stack |-> below \o <<[call EXCEPT !.at = "first"],
                                                Frame(FirstHalf(call.texts))>>,
                          result |-> NoResult]
               ELSE IF provider_ok
                    THEN Return(below, Embeddings(call.texts))
                    ELSE Propagates("OpenAIError")
       IN  /\ (~provider_ok) => (~Oversized(call.texts) /\ call.texts = << >>)
           /\ provider_calls' = IF Oversized(call.texts) THEN provider_calls
                                 ELSE Append(provider_calls, call.texts)
           /\ embed_stack' = next.stack
           /\ embed_result' = next.result
           /\ embed_pc' = IF next.stack = << >> THEN "done" ELSE "running"
    /\ UNCHANGED embed_texts
    /\ UNCHANGED <<now, batch_vars, rate_vars, cache_vars, sweep_vars, ctx_vars, chat_vars,
                   split_vars, retr_vars>>

NextEmbed ==
    \/ \E texts \in EmbedInputs : get_embeddings(texts)
    \/ \E provider_ok \in BOOLEAN : embed_step(provider_ok)

SpecEmbed == Init /\ [][NextEmbed]_vars

(***************************************************************************)
(* Claims about the BatchProcessor                                         *)
(***************************************************************************)
Range(q) == {q[i] : i \in 1 .. Len(q)}

\* C1: every add_to_batch call eventually returns or raises: a submitter
\* suspended on its completion handle is eventually resumed, as long as
\* further submissions arrive (another caller has entered add_to_batch or is
\* about to) and the processor terminates.
C1_SuspendedSubmitterReturns ==
    \A s \in Tasks :
        (pc[s] = "waitFuture") ~>
            \/ pc[s] = "done"
            \/ \A t \in Tasks \ {s} : pc[t] \notin {"idle", "acquire"}

\* C2: the lock is released before the processor is invoked: no caller holds
\* the lock while its batch is being processed, so another caller waiting at
\* the lock can enter and append.
C2_LockFreeWhileProcessing ==
    \A s \in Tasks : pc[s] = "processing" => lock # s

\* C3: a submitter whose item did not trigger a flush waits on its future
\* without holding the lock, so a later submitter waiting at the lock is able
\* to enter add_to_batch.
C3_WaitsWithoutLock ==
    \A s, t \in Tasks :
        (pc[s] = "waitFuture" /\ item_future[s].state = "pending" /\ pc[t] = "acquire")
            => ENABLED add_to_batch(t)

\* C4: for any interleaving, each item is handed to the processor in at most
\* one batch and at most once, every appended item is either still pending or
\* was handed to the processor (never both, never neither), and the batches
\* captured by different submitters share no item.
C4_NoDoubleFlushNoDrop ==
    /\ \A k1, k2 \in 1 .. Len(flushed) :
         \A i1 \in 1 .. Len(flushed[k1].batch), i2 \in 1 .. Len(flushed[k2].batch) :
             flushed[k1].batch[i1] = flushed[k2].batch[i2] => (k1 = k2 /\ i1 = i2)
    /\ \A i1, i2 \in 1 .. Len(current_batch) :
         current_batch[i1] = current_batch[i2] => i1 = i2
    /\ \A s \in appended :
         (s \in Range(current_batch)) # (\E k \in 1 .. Len(flushed) : s \in Range(flushed[k].batch))
    /\ \A s, t \in Tasks :
         s # t => Range(batch_to_process[s]) \cap Range(batch_to_process[t]) = {}
    /\ \A k \in 1 .. Len(flushed) : batch_to_process[flushed[k].by] = flushed[k].batch

\* C4 witness: two batches were handed to the processor, one of them holding
\* several items
C4_Witness ==
    /\ Len(flushed) >= 2
    /\ \E k \in 1 .. Len(flushed) : Len(flushed[k].batch) >= 2

\* no task step can be taken: every caller has entered add_to_batch and is
\* done, blocked at the lock, or suspended on a pending future
Quiescent ==
    \A s \in Tasks :
        \/ pc[s] = "done"
        \/ pc[s] = "acquire" /\ lock # NoTask
        \/ pc[s] = "waitFuture" /\ item_future[s].state = "pending"

\* no cancellation and no provider failure happened
NoFaults ==
    /\ \A s \in Tasks : outcome[s].kind # "cancelled" /\ item_future[s].state # "cancelled"
    /\ \A k \in 1 .. Len(flushed) : flushed[k].provider \in {"running", "ok"}

\* sizes of the batches NumTasks items make: full batches, then the rest
ExpectedSizes ==
    [k \in 1 .. ((NumTasks + BatchSize - 1) \div BatchSize) |->
        IF k * BatchSize <= NumTasks THEN BatchSize ELSE NumTasks % BatchSize]

\* C5: NumTasks items submitted to a processor with batch_size BatchSize, all
\* before max_wait_time has elapsed, end in exactly ceil(NumTasks/BatchSize)
\* processor invocations of sizes BatchSize, ..., BatchSize, rest, and every
\* caller has received a result (the spec's 25 items / batch_size 10 /
\* batches 10, 10, 5, scaled to the model's bounds).
C5_AllItemsBatchedAndAnswered ==
    (now < MaxWaitTime /\ NoFaults /\ Quiescent) =>
        /\ [k \in 1 .. Len(flushed) |-> Len(flushed[k].batch)] = ExpectedSizes
        /\ \A s \in Tasks : outcome[s].kind = "value"

\* C6: for every flushed batch for which the provider returned its result
\* list, each item's caller that has finished without being cancelled has
\* received the element of the result list at its item's own position.
C6_ResultAtOwnPosition ==
    \A k \in 1 .. Len(flushed) :
        flushed[k].provider = "ok" =>
            \A i \in 1 .. Len(flushed[k].batch) :
                LET c == flushed[k].batch[i] IN
                (pc[c] = "done" /\ outcome[c].kind # "cancelled") =>
                    /\ outcome[c].kind = "value"
                    /\ outcome[c].val = flushed[k].results[i]

\* C7: if the provider call of a batch raised, every caller of that batch
\* that has finished without being cancelled has received that same error,
\* and no caller of the batch has received a value.
C7_SameErrorForWholeBatch ==
    \A k \in 1 .. Len(flushed) :
        flushed[k].provider = "failed" =>
            \A i \in 1 .. Len(flushed[k].batch) :
                LET c == flushed[k].batch[i] IN
                /\ outcome[c].kind # "value"
                /\ item_future[c].state # "result"
                /\ (pc[c] = "done" /\ outcome[c].kind # "cancelled") =>
                       (outcome[c].kind = "error" /\ outcome[c].err = "ProviderError")

\* the batch of log entry k raised: its flusher ended with an error
Raised(k) == pc[flushed[k].by] = "done" /\ outcome[flushed[k].by].kind = "error"

C9_HandleSetAtMostOnce ==
    /\ bad_sets = {}
    /\ \A s \in Tasks :
         ~(item_future[s].val # NoVal /\ item_future[s].err # "none")

(***************************************************************************)
(* Claims about the rate limiter                                           *)
(***************************************************************************)
\* calls of identity ip up to its k-th that fall in the 60 s ending at the k-th
InWindow(ip, k) ==
    {j \in 1 .. k : calls[ip][k].t - calls[ip][j].t < WINDOW}

\* C10: a call is admitted iff the identity's calls of the last 60 seconds,
\* the call itself included, number at most MAX_REQUESTS_PER_MINUTE; so of
\* MAX_REQUESTS_PER_MINUTE + 1 calls of one identity inside one window, with
\* none before them, the first MAX_REQUESTS_PER_MINUTE return true and the
\* last returns false.
C10_AdmittedIffWithinLimit ==
    \A ip \in IPs :
        /\ \A k \in 1 .. Len(calls[ip]) :
             calls[ip][k].allowed <=>
                 (Cardinality(InWindow(ip, k)) <= MAX_REQUESTS_PER_MINUTE)
        /\ ( /\ Len(calls[ip]) > MAX_REQUESTS_PER_MINUTE
             /\ calls[ip][MAX_REQUESTS_PER_MINUTE + 1].t - calls[ip][1].t < WINDOW )
           => /\ \A k \in 1 .. MAX_REQUESTS_PER_MINUTE : calls[ip][k].allowed
              /\ ~calls[ip][MAX_REQUESTS_PER_MINUTE + 1].allowed

\* C10 witness: an identity's first MAX_REQUESTS_PER_MINUTE + 1 calls were
\* spread over less than 60 seconds, and the last of them was denied
C10_Witness ==
    \E ip \in IPs :
        /\ Len(calls[ip]) > MAX_REQUESTS_PER_MINUTE
        /\ calls[ip][MAX_REQUESTS_PER_MINUTE + 1].t > calls[ip][1].t
        /\ calls[ip][MAX_REQUESTS_PER_MINUTE + 1].t - calls[ip][1].t < WINDOW
        /\ calls[ip][MAX_REQUESTS_PER_MINUTE].allowed
        /\ ~calls[ip][MAX_REQUESTS_PER_MINUTE + 1].allowed

\* the stored window of an identity, empty when the identity has no key
WindowOf(counts, ip) == IF ip \in DOMAIN counts THEN counts[ip] ELSE << >>

\* the step is a check_rate_limit call by ip that was denied
DeniedCall(ip) ==
    /\ Len(calls'[ip]) = Len(calls[ip]) + 1
    /\ ~calls'[ip][Len(calls'[ip])].allowed

\* C11: a denied check_rate_limit call has no side effects: the identity's
\* request window is the same after the denied call as before it.
C11_DeniedCallLeavesWindow ==
    [][\A ip \in IPs :
          DeniedCall(ip) =>
              WindowOf(request_counts', ip) = WindowOf(request_counts, ip)]_vars

\* C12: after an identity has exceeded the limit with a burst of calls, its
\* next call, made 61 seconds or more after the last call of the burst,
\* returns true.
C12_AdmittedAgainAfterWindow ==
    \A ip \in IPs :
        \A k \in 2 .. Len(calls[ip]) :
            ( /\ ~calls[ip][k - 1].allowed
              /\ calls[ip][k].t - calls[ip][k - 1].t > WINDOW )
            => calls[ip][k].allowed

\* C12 witness: a burst ended with a denied call, and the identity's next
\* call, exactly 61 seconds later, was admitted
C12_Witness ==
    \E ip \in IPs :
        \E k \in 2 .. Len(calls[ip]) :
            /\ ~calls[ip][k - 1].allowed
            /\ calls[ip][k].t - calls[ip][k - 1].t = WINDOW + 1
            /\ calls[ip][k].allowed

\* the time of the latest call of identity ip
LastCallTime(ip) == calls[ip][Len(calls[ip])].t

\* C13: after every check_rate_limit call for an identity, every timestamp
\* stored in its window is strictly newer than the time of that call minus
\* 60 seconds (later sweeps only remove timestamps).
C13_WindowNewerThanCallMinus60 ==
    \A ip \in DOMAIN request_counts :
        /\ Len(calls[ip]) >= 1
        /\ \A i \in 1 .. Len(request_counts[ip]) :
             request_counts[ip][i] > LastCallTime(ip) - WINDOW

\* C13 witness: a call of an identity pruned an earlier timestamp of the
\* identity and kept another one
C13_Witness ==
    \E ip \in DOMAIN request_counts :
        /\ LastCallTime(ip) = now
        /\ Len(request_counts[ip]) >= 2
        /\ Len(request_counts[ip]) < Len(calls[ip])

\* the step is a check_rate_limit call
AnyCall == \E ip \in IPs : Len(calls'[ip]) = Len(calls[ip]) + 1

\* the identity the step's call came from
Caller == CHOOSE ip \in IPs : Len(calls'[ip]) = Len(calls[ip]) + 1

\* C14: in every state no identity of the map has an empty window; a call
\* made more than 60 seconds after the previous sweep runs a sweep (and an
\* earlier call runs none), and the sweep deletes every identity whose
\* timestamps are all older than 60 seconds (the caller is entered again by
\* its own call).
C14_SweepDeletesDeadIdentities ==
    /\ [](\A ip \in DOMAIN request_counts : request_counts[ip] # << >>)
    /\ [][AnyCall =>
            IF now - last_cleanup > CLEANUP_INTERVAL
            THEN /\ last_cleanup' = now
                 /\ \A ip \in DOMAIN request_counts \ {Caller} :
                      (\A i \in 1 .. Len(request_counts[ip]) :
                           now - request_counts[ip][i] > WINDOW)
                      => ip \notin DOMAIN request_counts'
            ELSE /\ last_cleanup' = last_cleanup
                 /\ DOMAIN request_counts \subseteq DOMAIN request_counts']_vars

\* C14 witness: a sweep has run and an identity that called before is no
\* longer in the map
C14_Witness ==
    /\ last_cleanup > 0
    /\ \E ip \in IPs : Len(calls[ip]) >= 1 /\ ip \notin DOMAIN request_counts

\* the timestamps of all calls of identity ip
OwnCalls(ip) == [k \in 1 .. Len(calls[ip]) |-> calls[ip][k].t]

\* C15: accounting is independent per identity: the live part of an
\* identity's stored window is exactly its own calls of the last 60 seconds,
\* whatever other identities called and whatever sweeps their calls ran; and
\* a call by one identity changes no live timestamp of another.
C15_OnlyOwnCallsCount ==
    /\ [](\A ip \in IPs :
            Recent(WindowOf(request_counts, ip), now) = Recent(OwnCalls(ip), now))
    /\ [][AnyCall =>
            \A ip \in IPs \ {Caller} :
                Recent(WindowOf(request_counts', ip), now)
                    = Recent(WindowOf(request_counts, ip), now)]_vars

\* C15 witness: the latest sweep was run by a call of one identity while
\* another identity, which has not called since, still has live timestamps
C15_Witness ==
    \E a, b \in IPs :
        /\ a # b
        /\ last_cleanup > 0
        /\ Len(calls[a]) >= 1 /\ LastCallTime(a) = last_cleanup
        /\ Len(calls[b]) >= 1 /\ LastCallTime(b) < last_cleanup
        /\ Recent(WindowOf(request_counts, b), now) # << >>

(***************************************************************************)
(* Claims about the LRUCache                                               *)
(***************************************************************************)
\* the key of the latest operation
LastKey == generate_key(last_op.key)

\* C16: for every key k, value v and ttl > 0, set(k, v, ttl) followed by
\* get(k) before any other operation and before ttl has elapsed returns v,
\* whatever the cache held before the set.
C16_GetAfterSetReturnsValue ==
    (last_op.op = "set" /\ last_op.ttl > 0 /\ now - last_op.t < last_op.ttl)
        => CacheGet(cache, LastKey, now).value = last_op.value

\* C16 witness: a set into a full cache overwrote the key's earlier value
C16_Witness ==
    /\ last_op.op = "set" /\ last_op.ttl > 0 /\ now = last_op.t
    /\ Len(last_op.before) = MaxSize
    /\ Has(last_op.before, LastKey)
    /\ ItemOf(last_op.before, LastKey).value # last_op.value
    /\ CacheGet(cache, LastKey, now).value = last_op.value

\* C17: get never returns the value of an entry whose expiry time has
\* passed: a get on a present-but-expired entry returns absent and removes
\* the entry; and a value that get returns is that of a present, live entry.
C17_GetNeverReturnsExpired ==
    last_op.op = "get" =>
        /\ ( /\ Has(last_op.before, LastKey)
             /\ ItemOf(last_op.before, LastKey).expire_time <= last_op.t )
           => (last_op.result = Absent /\ ~Has(cache, LastKey))
        /\ last_op.result # Absent =>
              /\ Has(last_op.before, LastKey)
              /\ ItemOf(last_op.before, LastKey).expire_time > last_op.t
              /\ ItemOf(last_op.before, LastKey).value = last_op.result

\* C17 witness: a get found an entry whose expiry time was exactly the time
\* of the call, with no operation since the set that stored it
C17_Witness ==
    /\ last_op.op = "get"
    /\ Has(last_op.before, LastKey)
    /\ ItemOf(last_op.before, LastKey).expire_time = last_op.t
    /\ ItemOf(last_op.before, LastKey).expire_time > 0
    /\ last_op.result = Absent

\* the keys of a cache, oldest first
KeySeq(c) == [i \in 1 .. Len(c) |-> c[i].key]

\* C18: eviction follows least-recently-touched order: a set of a new key
\* into a full cache evicts exactly one entry, the one whose last set or
\* successful get is the oldest; a get on a live entry moves it to the
\* most-recently-used end, adds one to its hit count and leaves the other
\* entries as they were; the cache is always in order of last touch.
C18_EvictsLeastRecentlyTouched ==
    /\ KeySeq(cache) = recency
    /\ ( /\ last_op.op = "set"
         /\ ~Has(last_op.before, LastKey)
         /\ Len(last_op.before) = MaxSize
         /\ MaxSize >= 1 )
       => /\ KeysOf(cache) = (KeysOf(last_op.before) \ {Head(last_op.order)}) \cup {LastKey}
          /\ Len(cache) = MaxSize
    /\ (last_op.op = "get" /\ last_op.result # Absent)
       => /\ cache[Len(cache)] =
                [ItemOf(last_op.before, LastKey) EXCEPT !.hits = @ + 1]
          /\ SubSeq(cache, 1, Len(cache) - 1) = Delete(last_op.before, LastKey)

\* C18 witness: a set of a new key into a full cache evicted an entry that
\* was not the first one stored, because a get had touched the first one
C18_Witness ==
    /\ last_op.op = "set"
    /\ ~Has(last_op.before, LastKey)
    /\ Len(last_op.before) = MaxSize
    /\ last_op.before[Len(last_op.before)].hits >= 1
    /\ last_op.before[Len(last_op.before)].value < last_op.before[1].value
    /\ ~Has(cache, last_op.before[1].key)

\* C19: capacity is a hard cap: in every state reached by any sequence of
\* get, set and cleanup the cache holds at most max_size entries.
C19_SizeAtMostMaxSize == Len(cache) <= MaxSize

\* C19 witness: a set of a new key into a cache that was full
C19_Witness ==
    /\ last_op.op = "set"
    /\ Len(last_op.before) = MaxSize
    /\ ~Has(last_op.before, LastKey)
    /\ Len(cache) = MaxSize

\* C20: cleanup() removes every entry whose expiry time is at or before the
\* time of the call and no other entry; the surviving entries keep their
\* value, hit count and relative order.
C20_CleanupRemovesExactlyExpired ==
    last_op.op = "cleanup" =>
        /\ \A i \in 1 .. Len(cache) : cache[i].expire_time > last_op.t
        /\ \A i \in 1 .. Len(last_op.before) :
             last_op.before[i].expire_time > last_op.t
                => \E j \in 1 .. Len(cache) : cache[j] = last_op.before[i]
        /\ cache = SelectSeq(last_op.before, LAMBDA e : e.expire_time > last_op.t)

\* C20 witness: a cleanup removed an entry that expired exactly at the time
\* of the call and kept a touched entry that expires later
C20_Witness ==
    /\ last_op.op = "cleanup"
    /\ \E i \in 1 .. Len(last_op.before) :
         last_op.before[i].expire_time = last_op.t /\ last_op.t > 0
    /\ \E j \in 1 .. Len(cache) : cache[j].hits >= 1

\* a cleanup call is between its start and its end
SweepRunning == cleanup_lock # NoSweeper

\* the step is a get or a set
GetOrSetStep == op_count' # op_count /\ last_op'.op \in {"get", "set"}

\* the step is one `del self.cache[key]` of cleanup call w
DeleteStep(w) ==
    /\ cleanup_pc[w] = "delete"
    /\ expired_keys[w] # << >>
    /\ expired_keys'[w] = Tail(expired_keys[w])

\* C21: cleanup() is mutually exclusive with get and set on the same cache:
\* no get or set executes between the start and the end of a sweep, and a
\* sweep deletes only entries that are in the cache and expired as of its
\* start, never an entry a set has rewritten with a fresh expiry.
C21_SweepExcludesGetAndSet ==
    [][ /\ SweepRunning => ~GetOrSetStep
        /\ \A w \in Sweepers :
             DeleteStep(w) =>
                 /\ Has(cache, Head(expired_keys[w]))
                 /\ Expired(ItemOf(cache, Head(expired_keys[w])), cleanup_now[w])
                 /\ Len(cache') = Len(cache) - 1 ]_vars

\* C21 witness: a sweep that is not over yet has deleted an expired entry
\* and left alone a live one
C21_Witness ==
    /\ SweepRunning
    /\ last_op.op = "cleanup"
    /\ Len(cache) < Len(last_op.before)
    /\ \E i \in 1 .. Len(cache) : Live(cache[i], now)

(***************************************************************************)
(* Claims about the context assembly                                       *)
(***************************************************************************)
\* the estimated tokens of the first n parts, length // 4 each
RECURSIVE PartTokens(_, _)
PartTokens(parts, n) ==
    IF n = 0 THEN 0
    ELSE PartTokens(parts, n - 1) + (parts[n].len \div CHARS_PER_TOKEN)

\* C22: for every positive max_tokens and every candidate list, the parts
\* emitted by _build_token_managed_context have an estimated token sum
\* (length // 4 per part, the truncated part included) of at most
\* max_tokens, and total_tokens <= max_tokens holds after every append.
C22_PartsWithinBudget ==
    (ctx_pc \in {"pack", "join", "done"} /\ max_tokens > 0) =>
        /\ total_tokens <= max_tokens
        /\ PartTokens(context_parts, Len(context_parts)) <= max_tokens

\* the estimated tokens of the first n candidates
RECURSIVE PrefixTokens(_, _)
PrefixTokens(cands, n) ==
    IF n = 0 THEN 0 ELSE PrefixTokens(cands, n - 1) + EstimatedTokens(cands[n].len)

\* the number of leading candidates that fit the budget together
FullPrefix(cands, limit) ==
    Cardinality({j \in 1 .. Len(cands) : PrefixTokens(cands, j) <= limit})

\* the returned parts are the packing of the candidates cands: the leading
\* candidates that fit, in full and in order, then nothing or one truncated
\* part of the first candidate that overflows
PackedFrom(cands) ==
    LET k == FullPrefix(cands, max_tokens)
        parts == final_context.parts
        consumed == PrefixTokens(cands, k)
    IN  /\ Len(parts) \in {k, k + 1}
        /\ \A i \in 1 .. k :
              /\ i <= Len(parts)
              /\ parts[i] = [kind |-> "full", chunk_hash |-> cands[i].chunk_hash,
                             len |-> cands[i].len]
        /\ Len(parts) = k + 1 =>
              /\ k < Len(cands)
              /\ parts[k + 1].kind = "truncated"
              /\ parts[k + 1].chunk_hash = cands[k + 1].chunk_hash
              /\ cands[k + 1].score > HIGH_RELEVANCE
              /\ 10 * consumed < 8 * max_tokens

\* the call has returned the packed context
Packed == ctx_pc = "done" /\ final_context.kind = "str"

\* C23 as stated: packing appends candidates in full, in order, while
\* consumed + candidate_tokens <= max_tokens and stops at the first
\* candidate that would overflow: nothing of any later candidate is
\* emitted, and of the overflowing candidate either nothing or, only if its
\* score is above 0.7 and less than 80% of the budget is consumed, one
\* truncated part that is the last part.
C23_PacksEveryCandidateThatFits == Packed => PackedFrom(prioritized_docs)

\* the candidates the loop does not skip (lines 211-212)
Packable(cands) == SelectSeq(cands, LAMBDA d : d.len >= MIN_TEXT_LEN)

\* C23 amended: candidates whose stripped text is shorter than 50
\* characters are skipped and count for nothing; the other candidates are
\* packed as stated, and three candidates of 1000 tokens under a budget of
\* 2500 yield exactly the first two in full.
C23_PacksEveryPackableCandidate ==
    Packed =>
        /\ PackedFrom(Packable(prioritized_docs))
        /\ ( /\ max_tokens = 2500
             /\ Len(prioritized_docs) = 3
             /\ \A i \in 1 .. 3 : prioritized_docs[i].len = 4000 )
           => /\ Len(final_context.parts) = 2
              /\ \A i \in 1 .. 2 :
                    final_context.parts[i] =
                        [kind |-> "full", chunk_hash |-> prioritized_docs[i].chunk_hash,
                         len |-> 4000]

\* C23 witness: a short candidate was skipped, the next one packed in full
\* and the one after it, overflowing, truncated
C23_Witness ==
    /\ Packed
    /\ Len(prioritized_docs) = 3
    /\ prioritized_docs[1].len < MIN_TEXT_LEN
    /\ Len(final_context.parts) = 2
    /\ final_context.parts[1].kind = "full"
    /\ final_context.parts[2].kind = "truncated"

\* the retrieved hits of fingerprint h that clear the threshold
Group(h) ==
    {i \in 1 .. Len(all_results) :
        DocId(all_results[i]) = h /\ all_results[i].score > THRESHOLD}

\* the ranked list has been built
Ranked == ctx_pc \in {"build", "pack", "join", "done"} /\ all_results # << >>

\* C24: deduplication keeps the best hit: among all retrieved hits that
\* share a content fingerprint and clear the threshold, exactly one
\* survives into the ranked list and it has the highest similarity score
\* of the group, whatever the order in which the hits were retrieved.
C24_DedupKeepsBestHit ==
    Ranked =>
        \A h \in ChunkHashes :
            LET kept == {j \in 1 .. Len(filtered_docs) : DocId(filtered_docs[j]) = h}
            IN  IF Group(h) = {}
                THEN kept = {}
                ELSE /\ Cardinality(kept) = 1
                     /\ \A j \in kept :
                           /\ \E i \in Group(h) : all_results[i] = filtered_docs[j]
                           /\ \A i \in Group(h) :
                                 filtered_docs[j].score >= all_results[i].score

\* C24 witness: of two hits with the same fingerprint the better one was
\* retrieved first, and a hit below the threshold came between them
C24_Witness ==
    /\ Ranked
    /\ Len(all_results) = 3
    /\ DocId(all_results[1]) = DocId(all_results[3])
    /\ all_results[1].score = 80
    /\ all_results[2].score = 20
    /\ all_results[3].score = 40
    /\ Len(filtered_docs) = 1
    /\ filtered_docs[1].score = 80

\* C25: after _prioritize_documents every candidate document has
\* priority_score >= score, whichever boost rule (label match,
\* specification match, overview query, or none) applied to it.
C25_PriorityAtLeastScore ==
    \A i \in 1 .. Len(prioritized_docs) :
        prioritized_docs[i].priority_score >= 10 * prioritized_docs[i].score

\* C25 witness: one call in which the label rule applied to one candidate
\* and the specification rule to another
C25_Witness ==
    /\ Len(prioritized_docs) = 2
    /\ \E i, j \in 1 .. 2 :
          /\ prioritized_docs[i].priority_score = 15 * prioritized_docs[i].score
          /\ prioritized_docs[j].priority_score = 13 * prioritized_docs[j].score

(***************************************************************************)
(* Claims about the chat endpoints and process_message                     *)
(***************************************************************************)
\* the latest request
LastRequest == chat_log[Len(chat_log)]

\* C26: when the same message is processed twice within the response-cache
\* TTL, the second call is a cache hit and the call counter of the
\* completion collaborator stays at 1 after both calls.
C26_SecondCallHitsOneCompletion ==
    ( /\ Len(chat_log) = 2
      /\ chat_log[1].outcome = "ok"
      /\ chat_log[2].invoked
      /\ chat_log[2].msg = chat_log[1].msg
      /\ chat_log[2].t - chat_log[1].t < RESPONSE_TTL )
    => /\ chat_log[2].outcome = "hit"
       /\ completion_calls = 1

\* the entries of a cache that a get at time t can return
LiveItems(c, t) == {c[i] : i \in {j \in 1 .. Len(c) : Live(c[j], t)}}

\* C27: if a step of process_message fails (input validation, embedding,
\* completion, history encryption), the response cache is left unchanged:
\* no entry is written or rewritten and every entry a get could return is
\* still there; a response is written back only by a call that succeeds.
C27_FailedCallWritesNothing ==
    /\ ( /\ chat_log # << >>
         /\ LastRequest.outcome \in {"validate", "embedding", "completion", "encrypt"} )
       => /\ \A i \in 1 .. Len(response_cache) :
                \E j \in 1 .. Len(cache_before) : cache_before[j] = response_cache[i]
          /\ LiveItems(response_cache, now) = LiveItems(cache_before, now)
    /\ \A i \in 1 .. Len(response_cache) :
          \E k \in 1 .. Len(chat_log) :
              /\ chat_log[k].outcome = "ok"
              /\ chat_log[k].served = response_cache[i].value

\* C27 witness: the encryption failed in a call whose lookup found an
\* expired response, after the completion and the analysis had been made
C27_Witness ==
    /\ chat_log # << >>
    /\ LastRequest.outcome = "encrypt"
    /\ cache_before # << >>
    /\ completion_calls >= 4

\* C28: when check_rate_limit returns false, chat_endpoint rejects the
\* request with HTTP status 429 and does not invoke process_message, so
\* the response cache and the conversation history are untouched.
C28_DeniedRequestGets429 ==
    (chat_log # << >> /\ LastRequest.op = "chat" /\ ~LastRequest.allowed)
    => /\ LastRequest.status = 429
       /\ ~LastRequest.invoked
       /\ response_cache = cache_before
       /\ conversation_history = history_before

\* C29: clearing the chat history of a session succeeds with success=true
\* (status 200), and afterwards the stored history of the session is empty.
C29_ClearHistorySucceeds ==
    (chat_log # << >> /\ LastRequest.op = "clear")
    => /\ LastRequest.status = 200
       /\ \/ LastRequest.session \notin DOMAIN conversation_history
          \/ conversation_history[LastRequest.session] = << >>

(***************************************************************************)
(* Claims about the TextSplitter                                           *)
(***************************************************************************)
\* every paragraph of the text, and so every word, is at most chunk_size long
ShortParagraphs ==
    \A i \in 1 .. Len(paragraphs) : JoinLen(paragraphs[i]) <= ChunkSize

\* C30: every chunk returned by split_text has length at most chunk_size,
\* for every input text made of paragraphs and words that are each no
\* longer than chunk_size.
C30_ChunksWithinChunkSize ==
    (split_pc = "done" /\ ShortParagraphs)
        => \A i \in 1 .. Len(chunks) : chunks[i] <= ChunkSize

(***************************************************************************)
(* Further claims about the BatchProcessor                                 *)
(***************************************************************************)
\* C35: the max_wait_time threshold is measured from the moment the first
\* item was appended to the pending, previously empty batch: a submission
\* into an empty batch opens the batch clock and, when max_wait_time > 0
\* and batch_size > 1, does not itself trigger a flush, however long the
\* aggregator was idle before.  A flushed batch of one item is such a
\* submission: the append and the flush are one step of the submitter.
C35_FirstSubmissionOpensClock ==
    (MaxWaitTime > 0 /\ BatchSize > 1)
        => \A k \in 1 .. Len(flushed) : Len(flushed[k].batch) > 1

(***************************************************************************)
(* Further claims about the rate limiter                                   *)
(***************************************************************************)
\* the admitted calls of identity ip in the interval shorter than 60 s that
\* ends with its k-th call
AdmittedInWindow(ip, k) ==
    {j \in 1 .. k : calls[ip][j].allowed /\ calls[ip][k].t - calls[ip][j].t < WINDOW}

\* C36: for each identity and for any interleaving of calls from any
\* identities and any sweeps, the calls of that identity that return true
\* within any interval shorter than 60 seconds number at most
\* MAX_REQUESTS_PER_MINUTE.  (An interval that holds calls can be cut to
\* one that ends with a call.)
C36_AtMostLimitAdmittedPerWindow ==
    \A ip \in IPs :
        \A k \in 1 .. Len(calls[ip]) :
            Cardinality(AdmittedInWindow(ip, k)) <= MAX_REQUESTS_PER_MINUTE

\* C36 witness: an identity filled its window, was denied inside it, and was
\* admitted again once the window had moved on
C36_Witness ==
    \E ip \in IPs :
        /\ Len(calls[ip]) = MAX_REQUESTS_PER_MINUTE + 2
        /\ \A k \in 1 .. MAX_REQUESTS_PER_MINUTE : calls[ip][k].allowed
        /\ ~calls[ip][MAX_REQUESTS_PER_MINUTE + 1].allowed
        /\ calls[ip][MAX_REQUESTS_PER_MINUTE + 1].t > calls[ip][1].t
        /\ calls[ip][MAX_REQUESTS_PER_MINUTE + 2].allowed

(***************************************************************************)
(* Further claims about process_message                                    *)
(***************************************************************************)
\* the failures of the original query's own embedding or retrieval
QueryFailures == {"embedding"} \cup RetrievalFailures

\* C31: if the original query's own embedding or retrieval fails, the
\* outcome is context-unavailable and the caller falls back to no-context
\* prompting: process_message still calls the completion collaborator
\* without context and returns a response with context_used=false instead
\* of failing.
C31_RetrievalFailureFallsBack ==
    \A k \in 1 .. Len(chat_log) :
        chat_log[k].failed \in QueryFailures
            => /\ chat_log[k].outcome = "ok"
               /\ chat_log[k].request # NoRequest
               /\ chat_log[k].request[1] = SystemMessage(NoContext)
               /\ ~responses[chat_log[k].served].context_used

\* the messages sent in the session of the k-th request, up to that request
SentInSession(k) ==
    {chat_log[j].msg : j \in {i \in 1 .. k : chat_log[i].session = chat_log[k].session}}

\* the user messages that the encrypted_history of a response encodes
EncodedUserMessages(data) ==
    LET messages == data.encrypted_history.fernet
    IN  {messages[i].content : i \in {j \in 1 .. Len(messages) : messages[j].role = "user"}}

\* C37: the response returned by process_message to session S carries only
\* S's own conversation: its encrypted_history encodes only messages sent
\* in session S, also when the response is served from the shared response
\* cache after another session asked the same normalized question.
C37_ResponseCarriesOwnConversation ==
    \A k \in 1 .. Len(chat_log) :
        chat_log[k].served # Absent
            => EncodedUserMessages(responses[chat_log[k].served]) \subseteq SentInSession(k)

\* the history messages of a completion request: all but the system
\* message and the current user message
PriorMessages(request) == Len(request) - 2

Retrieved ==
    /\ searches # << >>
    /\ searches[1].ok
    /\ ctx_pc \in {"dedupe", "build", "pack", "join", "done"}

\* the hits of the first n searches, in the order of the searches
RECURSIVE HitsOf(_, _)
HitsOf(log, n) == IF n = 0 THEN << >> ELSE HitsOf(log, n - 1) \o log[n].hits

\* C32: if embedding or search fails for one expansion query,
\* get_relevant_context skips that query only: the remaining expansion
\* queries are still issued, and the returned context is built from the
\* hits of the original query and of every expansion query that succeeded.
C32_FailedExpansionIsSkipped ==
    /\ Retrieved =>
          /\ Len(searches) = 1 + Len(expanded_queries)
          /\ \A i \in 1 .. Len(expanded_queries) :
                searches[i + 1].query = expanded_queries[i]
          /\ all_results = HitsOf(searches, Len(searches))
    /\ (Retrieved /\ ctx_pc = "done") =>
          \A h \in RetrievedHits :
              \* a hit that clears the threshold is in the context, unless a
              \* better hit of the same chunk was found
              ( /\ h.score > THRESHOLD
                /\ \E k \in 1 .. Len(searches) : searches[k].ok /\ searches[k].hits = <<h>>
                /\ ~\E k \in 1 .. Len(searches) :
                       /\ searches[k].hits # << >>
                       /\ searches[k].hits[1].chunk_hash = h.chunk_hash
                       /\ searches[k].hits[1].score > h.score )
              => \E p \in 1 .. Len(final_context.parts) :
                     final_context.parts[p].chunk_hash = h.chunk_hash

\* C32 witness: the first expansion query failed, the second and the third
\* were issued and the hit of the third is in the returned context
C32_Witness ==
    /\ Retrieved
    /\ ctx_pc = "done"
    /\ Len(searches) = 4
    /\ searches[1].hits = <<Hit(1, 40)>>
    /\ ~searches[2].ok
    /\ searches[3].ok
    /\ searches[4].hits = <<Hit(2, 80)>>
    /\ \E p \in 1 .. Len(final_context.parts) : final_context.parts[p].chunk_hash = 2

\* get_relevant_context has returned after hits were retrieved, none of
\* them with a score above the threshold
NothingAboveThreshold ==
    /\ ctx_pc = "done"
    /\ all_results # << >>
    /\ \A i \in 1 .. Len(all_results) : ~AboveThreshold(all_results[i])

\* C33: when hits were retrieved but none of them has a score above the
\* threshold, get_relevant_context returns the absent / no-context
\* outcome, the same outcome as when no hit was retrieved at all, and
\* process_message reports context_used=false.  (The value returned is the
\* empty string; it is no context to process_message, as None is: the
\* system message and context_used are the same.)
C33_NothingAboveThresholdIsNoContext ==
    NothingAboveThreshold =>
        /\ final_context.parts = << >>
        /\ ContextUsed(final_context) = ContextUsed(NoContext)
        /\ SystemMessage(final_context) = SystemMessage(NoContext)
        /\ ~ContextUsed(final_context)

\* C33 witness: three hits were retrieved, all at or below the threshold
C33_Witness ==
    /\ NothingAboveThreshold
    /\ Len(all_results) = 3
    /\ all_results[1].score = 20
    /\ all_results[2].score = -50
    /\ final_context = EmptyContext

\* _prioritize_documents has returned
Prioritised == ctx_pc \in {"pack", "join", "done"} /\ prioritized_docs # << >>

\* the source groups of the candidates
Groups == {prioritized_docs[i].file_name : i \in 1 .. Len(prioritized_docs)}

\* positions i..j of the list are in descending priority_score order
Descending(docs, i, j) ==
    \A a, b \in i .. j : a < b => docs[a].priority_score >= docs[b].priority_score

\* C34: _prioritize_documents returns a permutation of its input (no
\* candidate lost or duplicated) in which the highest-priority candidate
\* of each distinct source group comes first, in descending priority_score
\* order, followed by all remaining candidates in descending
\* priority_score order.
C34_GroupLeadersThenRest ==
    Prioritised =>
        LET n == Len(prioritized_docs)
            g == Cardinality(Groups)
        IN  /\ n = Len(filtered_docs)
            /\ \A i \in 1 .. n :
                  Cardinality({j \in 1 .. n :
                                  prioritized_docs[j] = Prioritized(filtered_docs[i], message)}) = 1
            /\ {prioritized_docs[i].file_name : i \in 1 .. g} = Groups
            /\ \A i \in 1 .. g, j \in 1 .. n :
                  prioritized_docs[j].file_name = prioritized_docs[i].file_name
                      => prioritized_docs[i].priority_score >= prioritized_docs[j].priority_score
            /\ Descending(prioritized_docs, 1, g)
            /\ Descending(prioritized_docs, g + 1, n)

\* C34 witness: three candidates of two groups, and the candidate that is
\* not the first of its group has a higher priority than the first of the
\* other group, which stands before it
C34_Witness ==
    /\ Prioritised
    /\ Len(prioritized_docs) = 3
    /\ Cardinality(Groups) = 2
    /\ prioritized_docs[3].priority_score > prioritized_docs[2].priority_score
    /\ prioritized_docs[3].file_name = prioritized_docs[1].file_name

(***************************************************************************)
(* Claims about BatchService._get_embeddings                               *)
(***************************************************************************)
\* C39: _get_embeddings terminates for every list of texts: the recursive
\* halving of an oversized batch always reaches provider calls whose
\* estimated token count is at most 250000, and the embeddings returned
\* have the same length and order as the input texts.
C39_HalvingReachesProvider ==
    /\ \A k \in 1 .. Len(provider_calls) : ~Oversized(provider_calls[k])
    /\ embed_pc = "done" =>
          /\ embed_result.kind = "value"
          /\ embed_result.val = Embeddings(embed_texts)

====
